---- MODULE Spec2Model ----
(***************************************************************************)
(* Model of the Swig wallet plugin's action handlers                       *)
(* (packages/plugin/src/actions/*.ts, packages/plugin/src/utils.ts).       *)
(*                                                                         *)
(* Every handler is an async function; it is modelled as a state machine   *)
(* whose steps are the stretches of code between two awaits.  An external  *)
(* call (key load, chain read, SDK instruction builder, sign, send,        *)
(* confirm, runtime callback) may return or throw; a throw inside the      *)
(* handler's try block runs the catch block, a throw outside it rejects    *)
(* the handler's promise.                                                  *)
(***************************************************************************)
EXTENDS Integers, Sequences, FiniteSets, TLC

VARIABLES
    swig,   \* chain state: wallet address -> [exists, roles, counter]
    inv,    \* handler invocations: slot -> invocation record
    plugin  \* the swigPlugin object and the runtime settings it is given

vars == <<swig, inv, plugin>>

(***************************************************************************)
(* Bounds of the model.                                                    *)
(***************************************************************************)
MaxRoles == 3       \* longest role list a wallet holds in the model
MaxCounter == 3     \* role ids handed out by a wallet stay below this
MaxLen == 5         \* longest text of the specification of the address parsing

(***************************************************************************)
(* Keys, addresses, tokens of a message text.                              *)
(***************************************************************************)
Keys == {"K1", "K2", "K3", "KL"}
NoKey == "none"
Mints == {"MintA"}
AddrTokens == Keys \cup Mints
NumTokens == {"0", "1", "2"}
NoMatch == "nomatch"
Undefined == "undefined"

NumVal(t) == CASE t = "0" -> 0 [] t = "1" -> 1 [] t = "2" -> 2 [] OTHER -> -1

\* [1-9A-HJ-NP-Za-km-z]{32,44}: a base58-shaped token
IsAddress(t) == t \in AddrTokens

\* \d+(?:\.\d+)? finds a digit run anywhere, also inside an address:
\* the key addresses of the model contain a digit, the mint address does not
DigitRun(t) ==
    CASE t \in NumTokens -> t
      [] t = "K1" -> "1"
      [] t = "K2" -> "2"
      [] t = "K3" -> "3"
      [] OTHER -> NoMatch

\* parseFloat(amountMatch[1]) of a digit run of the model
parseFloat(t) ==
    CASE t = "0" -> 0 [] t = "1" -> 1 [] t = "2" -> 2 [] t = "3" -> 3
      [] OTHER -> -1

At(text, i) == IF i >= 1 /\ i <= Len(text) THEN text[i] ELSE NoMatch

\* the least index of a set of positions of the text, 0 if the set is empty
FirstIdx(S) == IF S = {} THEN 0 ELSE CHOOSE i \in S : \A j \in S : i <= j

\* text.match(/(\d+(?:\.\d+)?)/)
amountMatch(text) ==
    LET i == FirstIdx({j \in 1..Len(text) : DigitRun(text[j]) # NoMatch})
    IN  IF i = 0 THEN NoMatch ELSE DigitRun(text[i])

\* text.match(/([1-9A-HJ-NP-Za-km-z]{32,44})/)
publicKeyMatch(text) ==
    LET i == FirstIdx({j \in 1..Len(text) : IsAddress(text[j])})
    IN  IF i = 0 THEN NoMatch ELSE text[i]

\* text.match(/\b[1-9A-HJ-NP-Za-km-z]{32,44}\b/g) || []
addresses(text) == SelectSeq(text, IsAddress)

RoleIdAt(text, i) ==
    IF At(text, i) # "role" THEN NoMatch
    ELSE IF At(text, i + 1) \in NumTokens THEN At(text, i + 1)
    ELSE IF At(text, i + 1) = "id" /\ At(text, i + 2) \in NumTokens
         THEN At(text, i + 2)
    ELSE NoMatch

\* text.match(/role\s*(?:id\s*)?(\d+)/i)
roleIdMatch(text) ==
    LET i == FirstIdx({j \in 1..Len(text) : RoleIdAt(text, j) # NoMatch})
    IN  IF i = 0 THEN NoMatch ELSE RoleIdAt(text, i)

\* text.match(/<word>\s+([1-9A-HJ-NP-Za-km-z]{32,44})/i) for a set of words
AfterWord(text, words) ==
    LET i == FirstIdx({j \in 1..Len(text) :
                        text[j] \in words /\ IsAddress(At(text, j + 1))})
    IN  IF i = 0 THEN NoMatch ELSE text[i + 1]

\* text.match(/mint\s+([1-9A-HJ-NP-Za-km-z]{32,44})/i)
mintMatch(text) == AfterWord(text, {"mint"})

\* text.match(/(?:mint|token)[\s:]+([A-Za-z0-9]{32,44})/i)
mintOrTokenMatch(text) == AfterWord(text, {"mint", "token"})

\* text.match(/to\s+([1-9A-HJ-NP-Za-km-z]{32,44})/i)
recipientMatch(text) == AfterWord(text, {"to"})

\* text.match(/<word>\s+(?:<opt>\s+)?([1-9A-HJ-NP-Za-km-z]{32,44})/i)
AfterWordOpt(text, word, opt) ==
    LET i == FirstIdx({j \in 1..Len(text) :
                        /\ text[j] = word
                        /\ \/ IsAddress(At(text, j + 1))
                           \/ /\ At(text, j + 1) = opt
                              /\ IsAddress(At(text, j + 2))})
    IN  IF i = 0 THEN NoMatch
        ELSE IF IsAddress(At(text, i + 1)) THEN text[i + 1] ELSE text[i + 2]

\* text.match(/to\s+(?:authority\s+)?([1-9A-HJ-NP-Za-km-z]{32,44})/i)
authorityMatch(text) == AfterWordOpt(text, "to", "authority")

(***************************************************************************)
(* The validate predicates, which test message.content.text.toLowerCase(). *)
(***************************************************************************)
\* whether the lower-cased token still matches \b[1-9A-HJ-NP-Za-km-z]{32,44}\b:
\* an upper-case L of an address becomes l, which the class excludes
LowerKeepsShape(t) == IsAddress(t) /\ t # "KL"

\* the string w occurs in the token t (String.includes and RegExp without \b)
Contains(t, w) == t = w \/ (t = "xauthority" /\ w = "authority")

\* /\b(w1|w2|...)\b/.test(text)
HasWord(text, words) == \E j \in 1..Len(text) : text[j] \in words

\* text.includes('w1 w2 ... wn'): the phrase may start inside a token and
\* end inside one
HasPhrase(text, phrase) ==
    \E j \in 0..(Len(text) - Len(phrase)) :
        \A k \in 1..Len(phrase) :
            IF k = 1 THEN Contains(text[j + k], phrase[k])
            ELSE text[j + k] = phrase[k]

\* new RegExp('w1.*w2.*w3').test(text)
HasInOrder(text, w1, w2, w3) ==
    \E a \in 1..Len(text), b \in 1..Len(text), c \in 1..Len(text) :
        /\ a < b /\ b < c
        /\ Contains(text[a], w1) /\ Contains(text[b], w2) /\ Contains(text[c], w3)

hasSwigWord(text) == HasWord(text, {"swig"})
hasTransferWord(text) == HasWord(text, {"transfer", "send", "pay"})
hasFromWord(text) == HasWord(text, {"from", "out", "using"})
hasAuthorityWord(text) == HasWord(text, {"authority", "signer", "role"})
hasAmountPattern(text) == \E j \in 1..Len(text) : DigitRun(text[j]) # NoMatch
hasAddressPattern(text) == \E j \in 1..Len(text) : LowerKeepsShape(text[j])

\* swigTransferToAddressAction.validate
validateTransferToAddress(text) ==
    \/ /\ hasSwigWord(text) /\ hasTransferWord(text) /\ hasAmountPattern(text)
       /\ (hasFromWord(text) \/ hasAddressPattern(text))
    \/ \E p \in {<<"transfer", "from", "swig">>, <<"send", "from", "swig">>,
                 <<"transfer", "using", "swig">>, <<"send", "using", "swig">>,
                 <<"swig", "transfer", "to">>, <<"swig", "send", "to">>,
                 <<"use", "swig", "to", "transfer">>,
                 <<"use", "swig", "to", "send">>} : HasPhrase(text, p)
    \/ HasInOrder(text, "transfer", "from", "swig")
    \/ HasInOrder(text, "send", "from", "swig")

\* swigTransferToAuthorityAction.validate
validateTransferToAuthority(text) ==
    \/ /\ hasSwigWord(text) /\ hasTransferWord(text) /\ hasAuthorityWord(text)
       /\ hasAmountPattern(text)
    \/ \E p \in {<<"transfer", "from", "swig", "to", "authority">>,
                 <<"send", "from", "swig", "to", "authority">>,
                 <<"transfer", "to", "swig", "authority">>,
                 <<"send", "to", "swig", "authority">>,
                 <<"swig", "transfer", "to", "authority">>,
                 <<"swig", "send", "to", "authority">>,
                 <<"use", "swig", "to", "transfer", "to", "authority">>} :
          HasPhrase(text, p)
    \/ HasInOrder(text, "transfer", "swig", "authority")
    \/ HasInOrder(text, "send", "swig", "authority")

\* the actions among the two SOL transfers out of the wallet whose validate
\* accepts the text
Eligible(text) ==
    {op \in {"SWIG_TRANSFER_TO_ADDRESS"} : validateTransferToAddress(text)}
    \cup {op \in {"SWIG_TRANSFER_TO_AUTHORITY"} : validateTransferToAuthority(text)}

(***************************************************************************)
(* Operations, settings, payloads.                                         *)
(***************************************************************************)
Ops == {"CREATE_SWIG", "GET_SWIG_BALANCE", "GET_SWIG_AUTHORITIES",
        "GET_SWIG_TOKEN_BALANCE", "TRANSFER_TO_SWIG", "TRANSFER_TOKEN_TO_SWIG",
        "ADD_SWIG_AUTHORITY", "REMOVE_SWIG_AUTHORITY",
        "SWIG_TRANSFER_TO_ADDRESS", "SWIG_TRANSFER_TO_AUTHORITY",
        "SWIG_TRANSFER_TOKEN_TO_ADDRESS", "SWIG_TRANSFER_TOKEN_TO_AUTHORITY"}

\* the operations that move value into or out of the wallet
TransferOps == {"TRANSFER_TO_SWIG", "TRANSFER_TOKEN_TO_SWIG",
                "SWIG_TRANSFER_TO_ADDRESS", "SWIG_TRANSFER_TO_AUTHORITY",
                "SWIG_TRANSFER_TOKEN_TO_ADDRESS",
                "SWIG_TRANSFER_TOKEN_TO_AUTHORITY"}

\* the operations that fetch the role list and require a role of the caller
RoleOps == {"ADD_SWIG_AUTHORITY", "REMOVE_SWIG_AUTHORITY",
            "SWIG_TRANSFER_TO_ADDRESS", "SWIG_TRANSFER_TO_AUTHORITY",
            "SWIG_TRANSFER_TOKEN_TO_ADDRESS",
            "SWIG_TRANSFER_TOKEN_TO_AUTHORITY"}

\* values runtime.getSetting returns for a feature switch
SettingValues == {Undefined, "true", "false"}

\* values of a setting that are not strings: null, the booleans, the number 1
Null == "<null>"
BoolTrue == "<true>"
BoolFalse == "<false>"
NumOne == "<1>"

\* every kind of value a setting can hold
AllSettingValues ==
    SettingValues \cup {"TRUE", "1", "", Null, BoolTrue, BoolFalse, NumOne}

\* String(value): a string is itself, any other value is written out
String(v) ==
    CASE v = Null -> "null"
      [] v = BoolTrue -> "true"
      [] v = BoolFalse -> "false"
      [] v = NumOne -> "1"
      [] v = Undefined -> "undefined"
      [] OTHER -> v

\* a test that ignores the case of the setting
transfersEnabledAnyCase(setting) ==
    IF setting = Undefined THEN TRUE ELSE String(setting) \in {"true", "TRUE"}

\* setting === undefined ? true : String(setting) === 'true'
transfersEnabled(setting) ==
    IF setting = Undefined THEN TRUE ELSE String(setting) = "true"

\* setting === undefined ? true : String(setting) === 'true'
authorityManagementEnabled(setting) ==
    IF setting = Undefined THEN TRUE ELSE String(setting) = "true"

\* no handler begins with the transfers check
HasTransfersGateNowhere(op) == FALSE

\* the handlers that begin with the inline SWIG_TRANSFERS_ENABLED check
HasTransfersGate(op) ==
    op \in {"TRANSFER_TO_SWIG", "TRANSFER_TOKEN_TO_SWIG",
            "SWIG_TRANSFER_TOKEN_TO_AUTHORITY"}

\* the handlers that begin with the SWIG_AUTHORITY_MANAGEMENT_ENABLED check
HasAuthorityGate(op) == op = "REMOVE_SWIG_AUTHORITY"

NoPayload ==
    [kind |-> "none", actions |-> <<>>, err |-> "none", address |-> NoKey,
     balance |-> -1, text |-> <<>>, thought |-> "none", source |-> Undefined]

\* values of message.content.source
Sources == {Undefined, "discord", "telegram"}

\* a payload whose actions lack the REPLY entry and whose source is fixed
PayloadBare(kind, op, err, source) ==
    [kind |-> kind, actions |-> <<op>>, err |-> err, address |-> NoKey,
     balance |-> -1, text |-> <<kind, err>>, thought |-> kind,
     source |-> "direct"]

\* { text, thought, actions: [opName, 'REPLY'], source }
Payload(kind, op, err, source) ==
    [kind |-> kind, actions |-> <<op, "REPLY">>, err |-> err, address |-> NoKey,
     balance |-> -1, text |-> <<kind, err>>, thought |-> kind,
     source |-> source]

\* utils.ts getSwigConfig(runtime)
getSwigConfig(setting) ==
    [transfersEnabled |->
        IF setting = Undefined THEN TRUE ELSE String(setting) = "true"]

\* utils.ts areTransfersEnabled(runtime): config.transfersEnabled ?? true
configAreTransfersEnabled(setting) == getSwigConfig(setting).transfersEnabled

\* utils.ts validateTransfersEnabled: the refusal payload, or null
validateTransfersEnabled(setting, actionName, messageSource) ==
    LET enabled == IF setting = Undefined THEN TRUE
                   ELSE String(setting) = "true"
    IN  IF ~enabled THEN Payload("disabled", actionName, "disabled", messageSource)
        ELSE NoPayload

(***************************************************************************)
(* The key loader: utils.ts getSolanaWallet.                               *)
(***************************************************************************)
\* values of the SOLANA_PRIVATE_KEY setting: absent, a base58 secret key, a
\* JSON array of 64 bytes, and strings that are none of these
KeySettings ==
    {Undefined, "base58", "json", "not base58", "[not json]", "[1,2]",
     "[1,2"}

\* what parsing the setting gives: the secret key bytes, too few bytes, or
\* a throw of JSON.parse or bs58.decode
privateKey(setting) ==
    IF setting \in {"json", "[not json]", "[1,2]"}      \* '[' ... ']'
    THEN CASE setting = "json" -> "64 bytes"
           [] setting = "[1,2]" -> "2 bytes"
           [] OTHER -> "throw"
    ELSE IF setting = "base58" THEN "64 bytes" ELSE "throw"

\* a loader that lets the parse error out
getSolanaWalletOrThrow(setting, pk) ==
    IF setting = Undefined THEN NoKey
    ELSE IF privateKey(setting) = "64 bytes" THEN pk ELSE "throw"

\* getSolanaWallet(runtime): the provider of the key pk the setting holds,
\* or null; every throw inside is caught and gives null
getSolanaWallet(setting, pk) ==
    IF setting = Undefined THEN NoKey
    ELSE IF privateKey(setting) = "throw" THEN NoKey
    ELSE IF privateKey(setting) # "64 bytes" THEN NoKey  \* Keypair.fromSecretKey throws
    ELSE pk

(***************************************************************************)
(* The plugin object: index.ts.                                            *)
(***************************************************************************)
\* index.ts areTransfersEnabled(runtime)
areTransfersEnabled(setting) ==
    IF setting = Undefined THEN TRUE ELSE String(setting) = "true"

readOnlyActions ==
    <<"CREATE_SWIG", "GET_SWIG_BALANCE", "GET_SWIG_AUTHORITIES",
      "GET_SWIG_TOKEN_BALANCE">>

transferActions ==
    <<"TRANSFER_TO_SWIG", "ADD_SWIG_AUTHORITY", "SWIG_TRANSFER_TO_ADDRESS",
      "TRANSFER_TOKEN_TO_SWIG", "SWIG_TRANSFER_TO_AUTHORITY",
      "SWIG_TRANSFER_TOKEN_TO_ADDRESS", "SWIG_TRANSFER_TOKEN_TO_AUTHORITY">>

\* an initialization that registers nothing when transfers are disabled
availableActionsOrNone(setting) ==
    IF areTransfersEnabled(setting) THEN readOnlyActions \o transferActions
    ELSE <<>>

\* an initialization that keeps the transfer actions an earlier one listed
availableActionsKept(setting) ==
    IF areTransfersEnabled(setting)
       \/ \E k \in 1..Len(plugin.actions) : plugin.actions[k] = "TRANSFER_TO_SWIG"
    THEN readOnlyActions \o transferActions
    ELSE readOnlyActions

\* an initialization that registers everything whatever the setting
availableActionsAlways(setting) == readOnlyActions \o transferActions

\* transfersEnabled ? [...readOnlyActions, ...transferActions] : readOnlyActions
availableActions(setting) ==
    IF areTransfersEnabled(setting) THEN readOnlyActions \o transferActions
    ELSE readOnlyActions

\* export const swigPlugin = { ..., actions: [] } in a runtime whose
\* SWIG_TRANSFERS_ENABLED and SWIG_AUTHORITY_MANAGEMENT_ENABLED settings are
\* tset and aset
NotInitialized(tset, aset) ==
    [initialized |-> FALSE, actions |-> <<>>, tset |-> tset, aset |-> aset,
     prev |-> <<>>]

\* the names in swigPlugin.actions
Registered == {plugin.actions[k] : k \in 1..Len(plugin.actions)}

(***************************************************************************)
(* Chain state: wallets, roles, instructions.                              *)
(***************************************************************************)
Wallets == {"W1", "W2"}
Callers == {"K1", "K2"}

\* a derivation that gives every key the same wallet address
findSwigPdaShared(pk) == "W1"

\* findSwigPda(wallet.publicKey.toBytes()): the wallet address is derived
\* from the caller's own key
findSwigPda(pk) ==
    CASE pk = "K1" -> "W1" [] pk = "K2" -> "W2" [] OTHER -> "W3"

NoRole == [id |-> -1, authority |-> NoKey]

Role(id, k) == [id |-> id, authority |-> k]

\* a lookup that returns every role, whoever signs
findRolesOfAnyone(roles, pk) == roles

\* swig.findRolesByEd25519SignerPk(wallet.publicKey)
findRolesByEd25519SignerPk(roles, pk) ==
    SelectSeq(roles, LAMBDA role : role.authority = pk)

\* a lookup that ignores the id and returns the first role
findRoleByIdFirst(roles, roleId) == IF roles = <<>> THEN NoRole ELSE roles[1]

\* a lookup that takes the id for a position in the role list
findRoleByIdAsIndex(roles, roleId) ==
    IF roleId + 1 \in 1..Len(roles) THEN roles[roleId + 1] ELSE NoRole

\* swig.roles.find((role) => role.id === roleId)
findRoleById(roles, roleId) ==
    LET i == FirstIdx({j \in 1..Len(roles) : roles[j].id = roleId})
    IN  IF i = 0 THEN NoRole ELSE roles[i]

\* a lookup that accepts any address once the wallet has a role
findRoleByAuthorityAny(roles, pk) == IF roles = <<>> THEN NoRole ELSE roles[1]

\* swig.roles.find((role) => new PublicKey(role.authority.data).equals(pk))
findRoleByAuthority(roles, pk) ==
    LET i == FirstIdx({j \in 1..Len(roles) : roles[j].authority = pk})
    IN  IF i = 0 THEN NoRole ELSE roles[i]

NoIxs == <<>>

\* Actions.set().all().get(): the full permission set; other instructions
\* carry no permission set
ActionsAll == "all"
NoActions == "none"

Ix(kind, role, payer, target, authority, from, to) ==
    [kind |-> kind, role |-> role, payer |-> payer, target |-> target,
     authority |-> authority, from |-> from, to |-> to, wrapped |-> FALSE,
     actions |-> NoActions]

\* a wrapper that returns the instructions as they came
signInstructionBare(agentRole, payer, instructions) == instructions

\* signInstruction(agentRole, wallet.publicKey, instructions)
signInstruction(agentRole, payer, instructions) ==
    [j \in 1..Len(instructions) |->
        [instructions[j] EXCEPT !.wrapped = TRUE, !.role = agentRole.id]]

\* a creation instruction that grants its authority no permission
SwigCreateNoActions(pk) == Ix("create", -1, pk, -1, pk, pk, findSwigPda(pk))

\* Swig.create({ actions, authorityInfo, id, payer })
SwigCreate(pk) ==
    [Ix("create", -1, pk, -1, pk, pk, findSwigPda(pk)) EXCEPT !.actions = ActionsAll]

\* addAuthorityInstruction(agentRole, payer, authorityInfo, actions)
addAuthorityInstruction(agentRole, payer, authority) ==
    [Ix("addAuthority", agentRole.id, payer, -1, authority, NoKey, NoKey)
        EXCEPT !.actions = ActionsAll]

\* removeAuthorityInstruction(agentRole, payer, targetRole)
removeAuthorityInstruction(agentRole, payer, targetRole) ==
    Ix("removeAuthority", agentRole.id, payer, targetRole.id,
       targetRole.authority, NoKey, NoKey)

\* SystemProgram.transfer({ fromPubkey, toPubkey, lamports })
SystemTransfer(from, to) == Ix("transfer", -1, NoKey, -1, NoKey, from, to)

\* createTransferInstruction(fromAta, toAta, owner, amount)
createTransferInstruction(from, to) ==
    Ix("tokenTransfer", -1, NoKey, -1, NoKey, from, to)

\* an account creation paid by the owner of the new account
createAssociatedTokenAccountByOwner(payer, owner) ==
    Ix("createAta", -1, owner, -1, NoKey, NoKey, owner)

\* createAssociatedTokenAccountInstruction(payer, ata, owner, mint)
createAssociatedTokenAccountInstruction(payer, owner) ==
    Ix("createAta", -1, payer, -1, NoKey, NoKey, owner)

RemoveId(roles, id) == SelectSeq(roles, LAMBDA role : role.id # id)

\* whether the chain program accepts an instruction on wallet state w
ChainAccepts(w, ix) ==
    CASE ix.kind = "create" -> ~w.exists
      [] ix.kind = "addAuthority" ->
            w.exists /\ Len(w.roles) < MaxRoles /\ w.counter < MaxCounter
      [] ix.kind = "removeAuthority" ->
            w.exists /\ \E j \in 1..Len(w.roles) : w.roles[j].id = ix.target
      [] OTHER -> TRUE

\* the wallet state after the chain program executed an instruction
ChainApply(w, ix) ==
    CASE ix.kind = "create" ->
            [exists |-> TRUE, roles |-> <<Role(0, ix.authority)>>, counter |-> 1]
      [] ix.kind = "addAuthority" ->
            [w EXCEPT !.roles = Append(@, Role(w.counter, ix.authority)),
                      !.counter = @ + 1]
      [] ix.kind = "removeAuthority" ->
            [w EXCEPT !.roles = RemoveId(@, ix.target)]
      [] OTHER -> w

RECURSIVE ApplyAll(_, _)
ApplyAll(w, ixs) ==
    IF ixs = <<>> THEN w ELSE ApplyAll(ChainApply(w, Head(ixs)), Tail(ixs))

AcceptsAll(w, ixs) == \A j \in 1..Len(ixs) : ChainAccepts(w, ixs[j])

(***************************************************************************)
(* One handler invocation.                                                 *)
(***************************************************************************)
(***************************************************************************)
(* Numbers. Amounts are JavaScript numbers, IEEE 754 binary64: a value is  *)
(* m * 2^e, m odd and of at most Precision bits, and every operation      *)
(* rounds to nearest, ties to even.                                        *)
(***************************************************************************)
Precision == 53

\* numbers too wide for one integer are kept as limbs of LimbBits bits,
\* lowest first
LimbBits == 15

Base == 2 ^ LimbBits

Zero == [m |-> <<>>, e |-> 0]

Pow10(d) == 10 ^ d

RECURSIVE Num(_)
Num(n) == IF n = 0 THEN <<>> ELSE <<n % Base>> \o Num(n \div Base)

RECURSIVE Val(_)
Val(x) == IF x = <<>> THEN 0 ELSE Head(x) + Base * Val(Tail(x))

RECURSIVE Trim(_)
Trim(x) ==
    IF x = <<>> \/ x[Len(x)] # 0 THEN x ELSE Trim(SubSeq(x, 1, Len(x) - 1))

\* x * c + carry for an integer c of at most LimbBits bits
RECURSIVE MulSmall(_, _, _)
MulSmall(x, c, carry) ==
    IF x = <<>> THEN Num(carry)
    ELSE LET t == Head(x) * c + carry
         IN  <<t % Base>> \o MulSmall(Tail(x), c, t \div Base)

\* quotient and remainder of (rem * Base^Len(x) + x) by an integer c of at
\* most LimbBits bits
RECURSIVE DivSmall(_, _, _)
DivSmall(x, c, rem) ==
    IF x = <<>> THEN [q |-> <<>>, r |-> rem]
    ELSE LET t == rem * Base + x[Len(x)]
             rest == DivSmall(SubSeq(x, 1, Len(x) - 1), c, t % c)
         IN  [q |-> Append(rest.q, t \div c), r |-> rest.r]

RECURSIVE Inc(_)
Inc(x) ==
    IF x = <<>> THEN <<1>>
    ELSE IF Head(x) + 1 < Base THEN <<Head(x) + 1>> \o Tail(x)
    ELSE <<0>> \o Inc(Tail(x))

\* the number of bits of x
BitLen(x) ==
    IF x = <<>> THEN 0
    ELSE LimbBits * (Len(x) - 1)
         + CHOOSE k \in 1..LimbBits :
              2 ^ (k - 1) <= x[Len(x)] /\ x[Len(x)] < 2 ^ k

\* x shifted right by s bits, and whether a bit that is 1 was shifted out
ShiftRight(x, s) ==
    LET w == s \div LimbBits
        d == DivSmall(SubSeq(x, w + 1, Len(x)), 2 ^ (s % LimbBits), 0)
    IN  [q |-> Trim(d.q),
         sticky |-> d.r # 0 \/ \E k \in 1..w : x[k] # 0]

\* m * 2^e with m odd
RECURSIVE Canon(_, _)
Canon(x, e) ==
    IF x = <<>> THEN Zero
    ELSE IF Head(x) = 0 THEN Canon(Tail(x), e + LimbBits)
    ELSE LET t == CHOOSE k \in 0..(LimbBits - 1) :
                     Head(x) % 2 ^ k = 0 /\ Head(x) % 2 ^ (k + 1) # 0
         IN  [m |-> ShiftRight(x, t).q, e |-> e + t]

\* the binary64 nearest, ties to even, to x * 2^e, or to a little more than
\* that when inexact
Round(x, e, inexact) ==
    LET drop == BitLen(x) - Precision
    IN  IF drop <= 0 THEN Canon(x, e)
        ELSE LET s == ShiftRight(x, drop - 1)
                 kept == ShiftRight(s.q, 1).q
                 up == /\ s.q[1] % 2 = 1
                       /\ s.sticky \/ inexact \/ kept[1] % 2 = 1
             IN  Canon(IF up THEN Inc(kept) ELSE kept, e + drop)

\* n / c of two integers that are binary64 values, correctly rounded
Divide(n, c) ==
    LET d == DivSmall([k \in 1..5 |-> 0] \o Num(n), c, 0)
    IN  IF n = 0 THEN Zero
        ELSE Round(Trim(d.q), -(5 * LimbBits), d.r # 0)

\* x * c for a binary64 x and an integer c that is a binary64 value
Times(x, c) == Round(MulSmall(x.m, c, 0), x.e, FALSE)

\* Number.isInteger(x)
IsInteger(x) == x.e >= 0

\* the integer a binary64 integer is
IntOf(x) == Val(x.m) * 2 ^ x.e

\* the digits of an amount in a message: n / 10^k, k digits after the point
AmountTexts ==
    {"1", "2", "0.1", "0.5", "1.1", "0.25", "1.25", "0.07", "0.29", "1.01",
     "1.15", "2.01", "4.35", "1.005"}

Decimal(t) ==
    CASE t = "1" -> [n |-> 1, k |-> 0]
      [] t = "2" -> [n |-> 2, k |-> 0]
      [] t = "0.1" -> [n |-> 1, k |-> 1]
      [] t = "0.5" -> [n |-> 5, k |-> 1]
      [] t = "1.1" -> [n |-> 11, k |-> 1]
      [] t = "0.25" -> [n |-> 25, k |-> 2]
      [] t = "1.25" -> [n |-> 125, k |-> 2]
      [] t = "0.07" -> [n |-> 7, k |-> 2]
      [] t = "0.29" -> [n |-> 29, k |-> 2]
      [] t = "1.01" -> [n |-> 101, k |-> 2]
      [] t = "1.15" -> [n |-> 115, k |-> 2]
      [] t = "2.01" -> [n |-> 201, k |-> 2]
      [] t = "4.35" -> [n |-> 435, k |-> 2]
      [] t = "1.005" -> [n |-> 1005, k |-> 3]

\* parseFloat(amountMatch[1]): the binary64 nearest to the decimal
parseFloat64(t) == Divide(Decimal(t).n, Pow10(Decimal(t).k))

\* mintInfo.decimals
MintDecimals == 0..3

\* const adjustedAmount = amount * Math.pow(10, mintInfo.decimals)
adjustedAmount(t, decimals) == Times(parseFloat64(t), Pow10(decimals))

\* const adjustedBalance = balance / Math.pow(10, mintInfo.decimals)
adjustedBalance(balance, decimals) == Divide(balance, Pow10(decimals))

Idle ==
    [pc |-> "idle", op |-> "none", caller |-> NoKey, text |-> <<>>,
     tset |-> Undefined, aset |-> Undefined, keyOk |-> FALSE,
     keySetting |-> Undefined, source |-> Undefined,
     hasCb |-> FALSE, hasSlot |-> FALSE, eligible |-> {},
     fetched |-> FALSE, roles |-> <<>>, agentRole |-> NoRole,
     target |-> NoRole, recipient |-> NoKey, mint |-> NoMatch,
     amount |-> -1, balance |-> -1, ixs |-> NoIxs, feePayer |-> NoKey,
     toAccount |-> "unknown",
     blockhashes |-> 0, signs |-> 0, sends |-> 0, landed |-> FALSE,
     confirmed |-> FALSE,
     reply |-> NoPayload, slot |-> NoPayload, slotWrites |-> 0, cbCalls |-> <<>>, cbMode |-> "none",
     err |-> "none", errStage |-> "none", result |-> "none",
     amountText |-> "none", decimals |-> -1, adjusted |-> Zero,
     units |-> -1, queried |-> Zero, lookup |-> "none"]

\* if (responses && responses.length > 0) responses[0].content = content;
\* if (callback) await callback(content); return true;
Deliver(r, content, mode) ==
    LET w == IF r.hasSlot
             THEN [r EXCEPT !.reply = content, !.slot = content,
                            !.slotWrites = @ + 1]
             ELSE [r EXCEPT !.reply = content]
    IN  IF r.hasCb
        THEN [w EXCEPT !.pc = "callback", !.cbMode = mode,
                       !.cbCalls = Append(@, content)]
        ELSE [w EXCEPT !.pc = "done", !.result = "returned"]

\* a catch block that starts the submission over instead of replying
CatchAndRetry(r, err, stage) ==
    [r EXCEPT !.pc = "blockhash", !.err = err, !.errStage = stage]

\* catch (error) { errorContent = ...; write slot; callback; return true; }
Catch(r, err, stage) ==
    Deliver([r EXCEPT !.err = err, !.errStage = stage],
            Payload("failure", r.op, err, r.source), "catch")

\* the success tail of the try block
Respond(r, kind) ==
    Deliver(r, [Payload(kind, r.op, "none", r.source) EXCEPT !.address = findSwigPda(r.caller),
                                                   !.balance = r.balance],
            "try")

\* the feature checks at the top of a handler, outside its try block
GateRefuses(r) ==
    \/ HasTransfersGate(r.op) /\ ~transfersEnabled(r.tset)
    \/ HasAuthorityGate(r.op) /\ ~authorityManagementEnabled(r.aset)

\* a parse that uses each keyword match on its own
tokenToAddressParseEither(text) ==
    LET all == addresses(text)
        m == mintMatch(text)
        t == recipientMatch(text)
    IN  IF amountMatch(text) = NoMatch THEN [err |-> "no_amount", mint |-> NoMatch, to |-> NoKey]
        ELSE IF Len(all) < 2 THEN [err |-> "need_two_addresses", mint |-> NoMatch, to |-> NoKey]
        ELSE [err |-> "none", mint |-> IF m # NoMatch THEN m ELSE all[1],
              to |-> IF t # NoMatch THEN t ELSE all[2]]

\* the mint and recipient of SWIG_TRANSFER_TOKEN_TO_ADDRESS
tokenToAddressParse(text) ==
    LET all == addresses(text)
        m == mintMatch(text)
        t == recipientMatch(text)
    IN  IF amountMatch(text) = NoMatch THEN [err |-> "no_amount", mint |-> NoMatch, to |-> NoKey]
        ELSE IF Len(all) < 2 THEN [err |-> "need_two_addresses", mint |-> NoMatch, to |-> NoKey]
        ELSE IF m # NoMatch /\ t # NoMatch THEN [err |-> "none", mint |-> m, to |-> t]
        ELSE [err |-> "none", mint |-> all[1], to |-> all[2]]

\* the mint of GET_SWIG_TOKEN_BALANCE
tokenBalanceMint(text) ==
    LET forTokenMatch == AfterWordOpt(text, "for", "token")
        ofTokenMatch == AfterWordOpt(text, "of", "token")
    IN  IF mintMatch(text) # NoMatch THEN mintMatch(text)
        ELSE IF forTokenMatch # NoMatch THEN forTokenMatch
        ELSE IF ofTokenMatch # NoMatch THEN ofTokenMatch
        ELSE IF Len(addresses(text)) > 0 THEN addresses(text)[1]
        ELSE NoMatch

\* the code of a handler between the key load and its first chain call
AfterKey(r) ==
    LET text == r.text
        pk == r.caller
        \* const amount = parseFloat(amountMatch[1])
        parsed == [r EXCEPT !.amount = parseFloat(amountMatch(text))]
    IN  CASE r.op \in {"CREATE_SWIG", "GET_SWIG_AUTHORITIES",
                       "REMOVE_SWIG_AUTHORITY"} ->
                [r EXCEPT !.pc = "fetch"]
          [] r.op = "GET_SWIG_BALANCE" ->
                [r EXCEPT !.pc = "getBalance", !.mint = mintOrTokenMatch(text)]
          [] r.op = "GET_SWIG_TOKEN_BALANCE" ->
                IF tokenBalanceMint(text) = NoMatch
                THEN Catch(r, "no_mint", "parse")
                ELSE [r EXCEPT !.pc = "getMint", !.mint = tokenBalanceMint(text)]
          [] r.op = "TRANSFER_TO_SWIG" ->
                IF amountMatch(text) = NoMatch
                THEN Catch(r, "no_amount", "parse")
                ELSE IF mintOrTokenMatch(text) = NoMatch
                THEN [parsed EXCEPT !.pc = "blockhash", !.feePayer = pk,
                         !.ixs = <<SystemTransfer(pk, findSwigPda(pk))>>]
                ELSE [parsed EXCEPT !.pc = "getMint", !.mint = mintOrTokenMatch(text)]
          [] r.op = "TRANSFER_TOKEN_TO_SWIG" ->
                IF amountMatch(text) = NoMatch
                THEN Catch(r, "no_amount", "parse")
                ELSE IF publicKeyMatch(text) = NoMatch
                THEN Catch(r, "no_mint", "parse")
                ELSE [parsed EXCEPT !.pc = "getMint", !.mint = publicKeyMatch(text)]
          [] r.op = "ADD_SWIG_AUTHORITY" ->
                IF publicKeyMatch(text) = NoMatch
                THEN Catch(r, "no_pubkey", "parse")
                ELSE [r EXCEPT !.pc = "fetch", !.recipient = publicKeyMatch(text)]
          [] r.op = "SWIG_TRANSFER_TO_ADDRESS" ->
                IF amountMatch(text) = NoMatch
                THEN Catch(r, "no_amount", "parse")
                ELSE IF publicKeyMatch(text) = NoMatch
                THEN Catch(r, "no_recipient", "parse")
                ELSE [parsed EXCEPT !.pc = "fetch", !.recipient = publicKeyMatch(text)]
          [] r.op = "SWIG_TRANSFER_TOKEN_TO_ADDRESS" ->
                LET p == tokenToAddressParse(text)
                IN  IF p.err # "none" THEN Catch(r, p.err, "parse")
                    ELSE [parsed EXCEPT !.pc = "fetch", !.mint = p.mint,
                                        !.recipient = p.to]
          [] OTHER ->  \* SWIG_TRANSFER_TO_AUTHORITY, SWIG_TRANSFER_TOKEN_TO_AUTHORITY
                IF amountMatch(text) = NoMatch
                THEN Catch(r, "no_amount", "parse")
                ELSE [parsed EXCEPT !.pc = "fetch"]

\* a last-authority check that only refuses on an empty role list
isLastAuthorityEmptyOnly(roles) == Len(roles) < 1

\* if (swig.roles.length <= 1) throw 'Cannot remove the last authority'
isLastAuthority(roles) == Len(roles) <= 1

\* a self-removal check that never refuses
isSelfRemovalNever(targetAuthorityPubkey, pk) == FALSE

\* if (targetAuthorityPubkey.equals(wallet.publicKey)) throw 'Cannot remove your own authority'
isSelfRemoval(targetAuthorityPubkey, pk) == targetAuthorityPubkey = pk

\* REMOVE_SWIG_AUTHORITY: the checks between the role-list fetch and the
\* instruction builder
removeResolve(roles, pk, text) ==
    LET mine == findRolesByEd25519SignerPk(roles, pk)
        byId == findRoleById(roles, NumVal(roleIdMatch(text)))
        byKey == findRoleByAuthority(roles, publicKeyMatch(text))
        targetRole == IF roleIdMatch(text) # NoMatch THEN byId ELSE byKey
        Fail(e) == [err |-> e, agentRole |-> NoRole, target |-> NoRole]
    IN  IF Len(mine) = 0 THEN Fail("not_authority")
        ELSE IF roleIdMatch(text) # NoMatch /\ byId = NoRole
             THEN Fail("role_not_found")
        ELSE IF roleIdMatch(text) = NoMatch /\ publicKeyMatch(text) # NoMatch
                /\ byKey = NoRole
             THEN Fail("authority_not_found")
        ELSE IF roleIdMatch(text) = NoMatch /\ publicKeyMatch(text) = NoMatch
             THEN Fail("no_target")
        ELSE IF isLastAuthority(roles) THEN Fail("last_authority")
        ELSE IF isSelfRemoval(targetRole.authority, pk) THEN Fail("self_removal")
        ELSE [err |-> "none", agentRole |-> mine[1], target |-> targetRole]

\* a resolution that accepts whatever address the text gives
authorityResolveUnchecked(roles, text, addressMatch) ==
    [err |-> "none", to |-> addressMatch]

\* a resolution that looks at the address before the role id
authorityResolveAddressFirst(roles, text, addressMatch) ==
    LET byId == findRoleById(roles, NumVal(roleIdMatch(text)))
        Fail(e) == [err |-> e, to |-> NoKey]
    IN  IF addressMatch # NoMatch
        THEN IF findRoleByAuthority(roles, addressMatch) = NoRole
             THEN Fail("address_not_authority")
             ELSE [err |-> "none", to |-> addressMatch]
        ELSE IF roleIdMatch(text) # NoMatch
        THEN IF byId = NoRole THEN Fail("role_not_found")
             ELSE [err |-> "none", to |-> byId.authority]
        ELSE Fail("no_target")

\* SWIG_TRANSFER_TO_AUTHORITY: the recipient authority, by role id or address
authorityResolve(roles, text, addressMatch) ==
    LET byId == findRoleById(roles, NumVal(roleIdMatch(text)))
        Fail(e) == [err |-> e, to |-> NoKey]
    IN  IF roleIdMatch(text) # NoMatch
        THEN IF byId = NoRole THEN Fail("role_not_found")
             ELSE [err |-> "none", to |-> byId.authority]
        ELSE IF addressMatch # NoMatch
        THEN IF findRoleByAuthority(roles, addressMatch) = NoRole
             THEN Fail("address_not_authority")
             ELSE [err |-> "none", to |-> addressMatch]
        ELSE Fail("no_target")

\* the code of a handler between the wallet fetch and its next external call
AfterFetch(r, w) ==
    LET text == r.text
        pk == r.caller
        mine == findRolesByEd25519SignerPk(w.roles, pk)
        seen == [r EXCEPT !.fetched = TRUE, !.roles = w.roles]
        held == [seen EXCEPT !.agentRole = mine[1]]
    IN  CASE r.op = "CREATE_SWIG" ->
                IF w.exists THEN Respond(seen, "existing")
                ELSE [seen EXCEPT !.pc = "blockhash", !.feePayer = pk,
                                  !.ixs = <<SwigCreate(pk)>>]
          [] r.op = "GET_SWIG_AUTHORITIES" -> Respond(seen, "success")
          [] r.op = "REMOVE_SWIG_AUTHORITY" ->
                LET c == removeResolve(w.roles, pk, text)
                IN  IF c.err # "none" THEN Catch(seen, c.err, "resolve")
                    ELSE [seen EXCEPT !.pc = "build", !.agentRole = c.agentRole,
                                      !.target = c.target]
          [] OTHER ->
                IF Len(mine) = 0 THEN Catch(seen, "not_authority", "resolve")
                ELSE IF r.op = "ADD_SWIG_AUTHORITY"
                THEN [held EXCEPT !.pc = "build"]
                ELSE IF r.op = "SWIG_TRANSFER_TO_ADDRESS"
                THEN [held EXCEPT !.pc = "build",
                        !.ixs = <<SystemTransfer(findSwigPda(pk), r.recipient)>>]
                ELSE IF r.op = "SWIG_TRANSFER_TO_AUTHORITY"
                THEN LET c == authorityResolve(w.roles, text, publicKeyMatch(text))
                     IN  IF c.err # "none" THEN Catch(held, c.err, "resolve")
                         ELSE [held EXCEPT !.pc = "build", !.recipient = c.to,
                                !.ixs = <<SystemTransfer(findSwigPda(pk), c.to)>>]
                ELSE IF r.op = "SWIG_TRANSFER_TOKEN_TO_ADDRESS"
                THEN [held EXCEPT !.pc = "getMint"]
                ELSE \* SWIG_TRANSFER_TOKEN_TO_AUTHORITY
                     LET c == authorityResolve(w.roles, text, authorityMatch(text))
                     IN  IF mintMatch(text) = NoMatch
                         THEN Catch(held, "no_mint", "parse")
                         ELSE IF c.err # "none" THEN Catch(held, c.err, "resolve")
                         ELSE [held EXCEPT !.pc = "getMint", !.recipient = c.to,
                                           !.mint = mintMatch(text)]

\* the code between getMint and the next external call
AfterMint(r) ==
    LET pk == r.caller
    IN  IF r.op = "TRANSFER_TO_SWIG"
        THEN [r EXCEPT !.pc = "blockhash", !.feePayer = pk,
                 !.ixs = <<createTransferInstruction(pk, findSwigPda(pk))>>]
        ELSE [r EXCEPT !.pc = "getAccount"]

\* the code between the token-account lookup and the next external call
AfterAccount(r, toAccountExists) ==
    LET pk == r.caller
        to == IF r.op = "TRANSFER_TOKEN_TO_SWIG" THEN findSwigPda(pk)
              ELSE r.recipient
        from == IF r.op = "TRANSFER_TOKEN_TO_SWIG" THEN pk ELSE findSwigPda(pk)
        instructions ==
            (IF toAccountExists THEN <<>>
             ELSE <<createAssociatedTokenAccountInstruction(pk, to)>>)
            \o <<createTransferInstruction(from, to)>>
        seen == [r EXCEPT !.toAccount = IF toAccountExists THEN "exists"
                                        ELSE "absent"]
    IN  CASE r.op = "GET_SWIG_TOKEN_BALANCE" -> Respond(seen, "success")
          [] r.op = "TRANSFER_TOKEN_TO_SWIG" ->
                [seen EXCEPT !.pc = "blockhash", !.feePayer = pk,
                             !.ixs = instructions]
          [] OTHER -> [seen EXCEPT !.pc = "build", !.ixs = instructions]

\* the SDK instruction builder returned: new Transaction().add(ix);
\* transaction.feePayer = wallet.publicKey
AfterBuild(r) ==
    LET pk == r.caller
        built ==
            CASE r.op = "ADD_SWIG_AUTHORITY" ->
                    <<addAuthorityInstruction(r.agentRole, pk, r.recipient)>>
              [] r.op = "REMOVE_SWIG_AUTHORITY" ->
                    <<removeAuthorityInstruction(r.agentRole, pk, r.target)>>
              [] OTHER -> signInstruction(r.agentRole, pk, r.ixs)
    IN  [r EXCEPT !.pc = "blockhash", !.ixs = built, !.feePayer = pk]

\* an order that sends before it signs
NextStageSendFirst(pc) ==
    CASE pc = "blockhash" -> "send"
      [] pc = "send" -> "sign"
      [] pc = "sign" -> "confirm"
      [] OTHER -> "respond"

\* the order of the submission steps of every handler:
\* getLatestBlockhash, signTransaction, sendRawTransaction, confirmTransaction
NextStage(pc) ==
    CASE pc = "blockhash" -> "sign"
      [] pc = "sign" -> "send"
      [] pc = "send" -> "confirm"
      [] OTHER -> "respond"

\* what follows a submission step that returned
Advance(r) ==
    IF NextStage(r.pc) = "respond" THEN Respond(r, "success")
    ELSE [r EXCEPT !.pc = NextStage(r.pc)]

(***************************************************************************)
(* Message texts and initial chain states of the model.                    *)
(***************************************************************************)
Messages(op) ==
    CASE op = "REMOVE_SWIG_AUTHORITY" ->
            {<<"remove", "role", "0">>, <<"remove", "role", "id", "1">>,
             <<"remove", "authority", "K1">>, <<"remove", "authority", "K2">>,
             <<"remove", "authority">>, <<"remove", "role", "2", "K2">>}
      [] op = "ADD_SWIG_AUTHORITY" ->
            {<<"add", "authority", "K2">>, <<"add", "authority">>}
      [] op = "SWIG_TRANSFER_TO_ADDRESS" ->
            {<<"transfer", "1", "from", "swig", "to", "K3">>,
             <<"transfer", "0", "from", "swig", "to", "K3">>,
             <<"swig", "pay", "1", "to", "KL">>,
             <<"transfer", "1", "from", "swig", "to", "K3", "xauthority">>,
             <<"transfer", "from", "swig">>,
             <<"transfer", "1", "from", "swig">>}
      [] op = "SWIG_TRANSFER_TO_AUTHORITY" ->
            {<<"transfer", "1", "from", "swig", "to", "role", "1">>,
             <<"transfer", "1", "from", "swig", "to", "authority", "K2">>,
             <<"transfer", "1", "from", "swig", "to", "authority">>,
             <<"transfer", "from", "swig", "to", "authority">>}
      [] op = "SWIG_TRANSFER_TOKEN_TO_ADDRESS" ->
            {<<"transfer", "1", "tokens", "mint", "MintA", "from", "swig", "to", "K3">>,
             <<"transfer", "1", "tokens", "MintA", "from", "swig", "K3">>,
             <<"transfer", "1", "tokens", "from", "swig", "to", "K3">>,
             <<"transfer", "tokens", "mint", "MintA">>}
      [] op = "SWIG_TRANSFER_TOKEN_TO_AUTHORITY" ->
            {<<"transfer", "1", "tokens", "mint", "MintA", "from", "swig", "to", "role", "1">>,
             <<"transfer", "1", "tokens", "mint", "MintA", "from", "swig", "to", "authority", "K2">>,
             <<"send", "1", "spl", "tokens", "MintA", "from", "swig", "to", "role", "1">>,
             <<"transfer", "tokens", "mint", "MintA">>}
      [] op = "TRANSFER_TO_SWIG" ->
            {<<"transfer", "1", "sol", "to", "swig">>,
             <<"transfer", "0", "sol", "to", "swig">>,
             <<"transfer", "1", "token", "MintA", "to", "swig">>,
             <<"transfer", "sol", "to", "swig">>}
      [] op = "TRANSFER_TOKEN_TO_SWIG" ->
            {<<"transfer", "1", "tokens", "mint", "MintA", "to", "swig">>,
             <<"transfer", "1", "tokens", "to", "swig">>,
             <<"transfer", "tokens", "to", "swig">>}
      [] op = "GET_SWIG_BALANCE" ->
            {<<"swig", "balance">>, <<"swig", "balance", "token", "MintA">>}
      [] op = "GET_SWIG_TOKEN_BALANCE" ->
            {<<"swig", "token", "balance", "for", "MintA">>,
             <<"swig", "token", "balance">>}
      [] OTHER -> {<<"swig">>}

RECURSIVE Numbered(_, _)
\* the role list a wallet holds after its keys were added in order
Numbered(keys, n) ==
    IF keys = <<>> THEN <<>>
    ELSE <<Role(n, Head(keys))>> \o Numbered(Tail(keys), n + 1)

NoWallet == [exists |-> FALSE, roles |-> <<>>, counter |-> 0]

WalletOf(keys) ==
    [exists |-> TRUE, roles |-> Numbered(keys, 0), counter |-> Len(keys)]

InitWallets ==
    {NoWallet} \cup
    {WalletOf(ks) : ks \in {<<"K1">>, <<"K2">>, <<"K1", "K2">>, <<"K2", "K1">>,
                            <<"K1", "K1">>, <<"K1", "K2", "K3">>}}

Slots == {"s1", "s2"}

\* amounts a token account or the wallet can hold in the model
TokenBalances == {0, 2}

\* what the token-account lookup meets: the account, no account, or a
\* failure of the chain read
LookupOutcomes == {"found", "absent", "read_error"}

\* a balance that is left without a value when the account is absent
balanceOfOrNone(toAccountExists, amount) ==
    IF toAccountExists THEN amount ELSE -1

\* let balance = 0; try { account = await getAccount(...); balance =
\* Number(account.amount) } catch { balance = 0 }
balanceOf(toAccountExists, amount) ==
    IF toAccountExists THEN amount ELSE 0

(***************************************************************************)
(* Actions: one per stretch of handler code between two awaits.            *)
(***************************************************************************)
\* a handler step changes its own invocation; no handler touches swigPlugin
Put(i, r) == inv' = [inv EXCEPT ![i] = r] /\ UNCHANGED plugin

\* the runtime calls handler(runtime, message, state, options, callback, responses)
Start(i, ops, callers, settings, present) ==
    /\ inv[i].pc = "idle"
    /\ \E op \in ops, pk \in callers, tset \in settings,
          aset \in settings, keyOk \in present,
          hasCb \in present, hasSlot \in present :
        \E text \in Messages(op) :
            Put(i, [Idle EXCEPT !.pc = "start", !.op = op, !.caller = pk,
                        !.text = text, !.eligible = Eligible(text),
                        !.tset = tset, !.aset = aset,
                        !.keyOk = keyOk,
                        !.keySetting = IF keyOk THEN "base58" ELSE Undefined,
                        !.hasCb = hasCb, !.hasSlot = hasSlot])
    /\ UNCHANGED swig

\* the feature check at the top of the handler
Gate(i) ==
    /\ inv[i].pc = "start"
    /\ Put(i, IF GateRefuses(inv[i])
              THEN Deliver(inv[i], Payload("disabled", inv[i].op, "disabled", inv[i].source), "gate")
              ELSE [inv[i] EXCEPT !.pc = "loadKey"])
    /\ UNCHANGED swig

\* await getSolanaWallet(runtime), then the parsing up to the first chain call
LoadKey(i) ==
    LET r == inv[i]
        wallet == getSolanaWallet(r.keySetting, r.caller)
    IN  /\ r.pc = "loadKey"
        /\ Put(i, IF wallet = "throw" THEN Catch(r, "key_error", "key")
                  ELSE IF wallet = NoKey THEN Catch(r, "no_wallet", "key")
                  ELSE AfterKey(r))
        /\ UNCHANGED swig

\* await fetchSwig(connection, swigAddress) / fetchNullableSwig
Fetch(i) ==
    LET r == inv[i]
        w == swig[findSwigPda(r.caller)]
    IN  /\ r.pc = "fetch"
        /\ \/ /\ w.exists \/ r.op = "CREATE_SWIG"
              /\ Put(i, AfterFetch(r, w))
           \/ Put(i, Catch(r, "chain_error", "fetch"))
        /\ UNCHANGED swig

\* await connection.getBalance / getTokenAccountBalance (the latter in its
\* own try/catch)
GetBalance(i) ==
    LET r == inv[i]
    IN  /\ r.pc = "getBalance"
        /\ \/ \E amount \in TokenBalances :
                 Put(i, Respond(
                     IF r.mint = NoMatch THEN [r EXCEPT !.balance = amount]
                     ELSE [r EXCEPT !.balance = balanceOf(TRUE, amount),
                                    !.toAccount = "exists",
                                    !.lookup = "found"], "success"))
           \/ /\ r.mint # NoMatch
              /\ \E outcome \in LookupOutcomes \ {"found"} :
                    Put(i, Respond([r EXCEPT !.balance = balanceOf(FALSE, 0),
                                            !.toAccount = "absent",
                                            !.lookup = outcome], "success"))
           \/ /\ r.mint = NoMatch
              /\ Put(i, Catch(r, "chain_error", "getBalance"))
        /\ UNCHANGED swig

\* await getMint(connection, mintAddress)
GetMint(i) ==
    LET r == inv[i]
    IN  /\ r.pc = "getMint"
        /\ \/ Put(i, AfterMint(r))
           \/ Put(i, Catch(r, "chain_error", "getMint"))
        /\ UNCHANGED swig

\* a lookup whose read failure reaches the handler's catch block
tryGetAccountSurfacing(r, outcome, amount) ==
    LET toAccountExists == outcome = "found"
        seen == [r EXCEPT !.lookup = outcome]
    IN  IF outcome = "read_error" THEN Catch(seen, "chain_error", "getAccount")
        ELSE AfterAccount(
                 IF r.op = "GET_SWIG_TOKEN_BALANCE"
                 THEN [seen EXCEPT !.balance = balanceOf(toAccountExists, amount)]
                 ELSE seen, toAccountExists)

\* let toAccountExists = false;
\* try { await getAccount(connection, toAta); toAccountExists = true }
\* catch (error) { }
tryGetAccount(r, outcome, amount) ==
    LET toAccountExists == outcome = "found"
        seen == [r EXCEPT !.lookup = outcome]
    IN  AfterAccount(
            IF r.op = "GET_SWIG_TOKEN_BALANCE"
            THEN [seen EXCEPT !.balance = balanceOf(toAccountExists, amount)]
            ELSE seen, toAccountExists)

\* await getAccount(connection, toAta) returns or throws
GetAccount(i) ==
    LET r == inv[i]
    IN  /\ r.pc = "getAccount"
        /\ \E outcome \in LookupOutcomes, amount \in TokenBalances :
              /\ r.op # "GET_SWIG_TOKEN_BALANCE" => amount = 0
              /\ outcome # "found" => amount = 0
              /\ Put(i, tryGetAccount(r, outcome, amount))
        /\ UNCHANGED swig

\* await addAuthorityInstruction / removeAuthorityInstruction / signInstruction
Build(i) ==
    LET r == inv[i]
    IN  /\ r.pc = "build"
        /\ \/ Put(i, AfterBuild(r))
           \/ Put(i, Catch(r, "chain_error", "build"))
        /\ UNCHANGED swig

\* await connection.getLatestBlockhash()
Blockhash(i) ==
    LET r == inv[i]
    IN  /\ r.pc = "blockhash"
        /\ \/ Put(i, Advance([r EXCEPT !.blockhashes = @ + 1]))
           \/ Put(i, Catch(r, "chain_error", "blockhash"))
        /\ UNCHANGED swig

\* await wallet.signTransaction(transaction)
Sign(i) ==
    LET r == inv[i]
    IN  /\ r.pc = "sign"
        /\ \/ Put(i, Advance([r EXCEPT !.signs = @ + 1]))
           \/ Put(i, Catch(r, "chain_error", "sign"))
        /\ UNCHANGED swig

\* await connection.sendRawTransaction(signedTransaction.serialize()): the
\* node rejects the transaction (throw), or takes it; a transaction it took
\* is executed by the chain program, or fails or is dropped without effect
Send(i) ==
    LET r == inv[i]
        a == findSwigPda(r.caller)
    IN  /\ r.pc = "send"
        /\ \/ /\ AcceptsAll(swig[a], r.ixs)
              /\ swig' = [swig EXCEPT ![a] = ApplyAll(@, r.ixs)]
              /\ Put(i, Advance([r EXCEPT !.sends = @ + 1, !.landed = TRUE]))
           \/ /\ Put(i, Advance([r EXCEPT !.sends = @ + 1]))
              /\ UNCHANGED swig
           \/ /\ Put(i, Catch(r, "chain_error", "send"))
              /\ UNCHANGED swig

\* await connection.confirmTransaction(signature, 'confirmed'): the handler
\* does not read the returned value.err
Confirm(i) ==
    LET r == inv[i]
    IN  /\ r.pc = "confirm"
        /\ \/ Put(i, Advance([r EXCEPT !.confirmed = TRUE]))
           \/ Put(i, Catch(r, "chain_error", "confirm"))
        /\ UNCHANGED swig

\* await callback(content) returns or throws: inside the try block a throw
\* runs the catch block, in the catch block or the feature branch it
\* rejects the handler's promise
Callback(i) ==
    LET r == inv[i]
    IN  /\ r.pc = "callback"
        /\ \/ Put(i, [r EXCEPT !.pc = "done", !.result = "returned"])
           \/ /\ r.cbMode = "try"
              /\ Put(i, Catch(r, "callback_error", "callback"))
           \/ /\ r.cbMode # "try"
              /\ Put(i, [r EXCEPT !.pc = "done", !.result = "raised"])
        /\ UNCHANGED swig

\* the runtime takes the handler's result; the slot is free for the next message
Return(i) ==
    /\ inv[i].pc = "done"
    /\ Put(i, Idle)
    /\ UNCHANGED swig

Init ==
    /\ swig \in [Wallets -> InitWallets]
    /\ swig["W2"] = NoWallet
    /\ inv = [i \in Slots |-> Idle]
    /\ plugin = NotInitialized(Undefined, Undefined)

Step(i) ==
    \/ Gate(i) \/ LoadKey(i) \/ Fetch(i) \/ GetBalance(i) \/ GetMint(i)
    \/ GetAccount(i) \/ Build(i) \/ Blockhash(i) \/ Sign(i) \/ Send(i)
    \/ Confirm(i) \/ Callback(i) \/ Return(i)

Next == Start("s1", Ops, {"K1"}, SettingValues, BOOLEAN) \/ Step("s1")

Spec == Init /\ [][Next]_vars

(***************************************************************************)
(* Two REMOVE_SWIG_AUTHORITY invocations in flight at once: the runtime    *)
(* starts a handler per message and their awaits interleave.               *)
(***************************************************************************)
RaceWallets(owner, other) ==
    {WalletOf(<<owner, other>>), WalletOf(<<owner, other, "K3">>)}

InitRace ==
    /\ swig \in [Wallets -> RaceWallets("K1", "K2") \cup {NoWallet, WalletOf(<<"K2", "K1">>)}]
    /\ swig["W1"] \in RaceWallets("K1", "K2")
    /\ swig["W2"] \in {NoWallet, WalletOf(<<"K2", "K1">>)}
    /\ inv = [i \in Slots |-> Idle]
    /\ plugin = NotInitialized(Undefined, Undefined)

StartRemove(i) ==
    Start(i, {"REMOVE_SWIG_AUTHORITY"}, Callers, {Undefined}, {TRUE})

NextRace ==
    \E i \in Slots :
        \/ StartRemove(i) \/ Gate(i) \/ LoadKey(i) \/ Fetch(i) \/ Build(i)
        \/ Blockhash(i) \/ Sign(i) \/ Send(i) \/ Confirm(i) \/ Callback(i)
        \/ Return(i)

SpecRace == InitRace /\ [][NextRace]_vars

(***************************************************************************)
(* Two CREATE_SWIG invocations for one owner key, one after the other or   *)
(* with their awaits interleaved. Finished invocations stay in their slot, *)
(* so a state shows everything that was submitted for the key.             *)
(***************************************************************************)
InitCreate ==
    /\ swig \in [Wallets -> {NoWallet, WalletOf(<<"K1">>)}]
    /\ swig["W2"] = NoWallet
    /\ inv = [i \in Slots |-> Idle]
    /\ plugin = NotInitialized(Undefined, Undefined)

StartCreate(i) == Start(i, {"CREATE_SWIG"}, {"K1"}, {Undefined}, BOOLEAN)

NextCreate ==
    \E i \in Slots :
        \/ StartCreate(i) \/ Gate(i) \/ LoadKey(i) \/ Fetch(i) \/ Blockhash(i)
        \/ Sign(i) \/ Send(i) \/ Confirm(i) \/ Callback(i)

SpecCreate == InitCreate /\ [][NextCreate]_vars

(***************************************************************************)
(* The plugin in a runtime: the runtime calls init once, then hands        *)
(* messages only to the actions of swigPlugin.actions, with the settings   *)
(* init saw.                                                               *)
(***************************************************************************)
InitPlugin ==
    /\ swig \in [Wallets -> {NoWallet, WalletOf(<<"K1", "K2">>)}]
    /\ swig["W2"] = NoWallet
    /\ inv = [i \in Slots |-> Idle]
    /\ plugin \in {NotInitialized(tset, aset) :
                      tset \in SettingValues, aset \in SettingValues}

\* swigPlugin.init(config, runtime)
PluginInit ==
    /\ ~plugin.initialized
    /\ plugin' = [plugin EXCEPT !.initialized = TRUE,
                                !.actions = availableActions(plugin.tset)]
    /\ UNCHANGED <<swig, inv>>

\* the runtime selects an action of the plugin for a message
StartRegistered(i) ==
    /\ plugin.initialized
    /\ inv[i].pc = "idle"
    /\ \E op \in Registered, keyOk \in BOOLEAN, hasCb \in BOOLEAN :
        \E text \in Messages(op) :
            Put(i, [Idle EXCEPT !.pc = "start", !.op = op, !.caller = "K1",
                        !.text = text, !.eligible = Eligible(text),
                        !.tset = plugin.tset, !.aset = plugin.aset,
                        !.keyOk = keyOk,
                        !.keySetting = IF keyOk THEN "base58" ELSE Undefined,
                        !.hasCb = hasCb, !.hasSlot = TRUE])
    /\ UNCHANGED swig

NextPlugin == PluginInit \/ StartRegistered("s1") \/ Step("s1")

SpecPlugin == InitPlugin /\ [][NextPlugin]_vars

(***************************************************************************)
(* Several runtimes load the one plugin object: each has its own           *)
(* SWIG_TRANSFERS_ENABLED, each calls init, and each invokes handlers,     *)
(* which are exported and read the setting of the runtime that calls them. *)
(***************************************************************************)
InitSwitch ==
    /\ swig \in [Wallets -> {WalletOf(<<"K1", "K2">>)}]
    /\ inv = [i \in Slots |-> Idle]
    /\ plugin = NotInitialized(Undefined, Undefined)

\* swigPlugin.init(config, runtime) of a runtime whose setting is tset;
\* prev remembers the list this init replaces
RuntimeInit ==
    /\ \E tset \in AllSettingValues :
        plugin' = [plugin EXCEPT !.initialized = TRUE,
                                 !.actions = availableActions(tset),
                                 !.tset = tset,
                                 !.prev = plugin.actions]
    /\ UNCHANGED <<swig, inv>>

\* the handlers that read SWIG_TRANSFERS_ENABLED, and one that does not
TransferGated ==
    {"TRANSFER_TO_SWIG", "TRANSFER_TOKEN_TO_SWIG",
     "SWIG_TRANSFER_TOKEN_TO_AUTHORITY"}

SwitchOps == TransferGated \cup {"GET_SWIG_BALANCE"}

\* a runtime whose setting is tset invokes a handler
StartSwitched(i) ==
    /\ plugin.initialized
    /\ inv[i].pc = "idle"
    /\ \E op \in SwitchOps, tset \in AllSettingValues, hasCb \in BOOLEAN :
        \E text \in Messages(op) :
            Put(i, [Idle EXCEPT !.pc = "start", !.op = op, !.caller = "K1",
                        !.text = text, !.eligible = Eligible(text),
                        !.tset = tset, !.keyOk = TRUE,
                        !.keySetting = "base58",
                        !.hasCb = hasCb, !.hasSlot = TRUE])
    /\ UNCHANGED swig

NextSwitch == RuntimeInit \/ StartSwitched("s1") \/ Step("s1")

SpecSwitch == InitSwitch /\ [][NextSwitch]_vars

(***************************************************************************)
(* One invocation at a time in runtimes whose SOLANA_PRIVATE_KEY setting   *)
(* is absent, well-formed or malformed.                                    *)
(***************************************************************************)
InitKey ==
    /\ swig \in [Wallets -> {NoWallet, WalletOf(<<"K1", "K2">>)}]
    /\ swig["W2"] = NoWallet
    /\ inv = [i \in Slots |-> Idle]
    /\ plugin = NotInitialized(Undefined, Undefined)

StartKeyed(i) ==
    /\ inv[i].pc = "idle"
    /\ \E op \in Ops, setting \in KeySettings, hasCb \in BOOLEAN :
        \E text \in Messages(op) :
            Put(i, [Idle EXCEPT !.pc = "start", !.op = op, !.caller = "K1",
                        !.text = text, !.eligible = Eligible(text),
                        !.keyOk = setting \in {"base58", "json"},
                        !.keySetting = setting,
                        !.hasCb = hasCb, !.hasSlot = TRUE])
    /\ UNCHANGED swig

NextKey == StartKeyed("s1") \/ Step("s1")

SpecKey == InitKey /\ [][NextKey]_vars

\* every await of a handler eventually resolves or rejects, and the runtime
\* eventually takes the handler's result: the handler's steps are weakly fair
SpecLive == InitKey /\ [][NextKey]_vars /\ WF_vars(Step("s1"))

(***************************************************************************)
(* SWIG_TRANSFER_TOKEN_TO_ADDRESS on every short text of amounts, keywords *)
(* and addresses.                                                          *)
(***************************************************************************)
ParseWords == {"1", "mint", "to", "MintA", "K3"}

ParseTexts == UNION {[1..n -> ParseWords] : n \in 2..MaxLen}

InitParse ==
    /\ swig \in [Wallets -> {WalletOf(<<"K1", "K2">>)}]
    /\ inv = [i \in Slots |-> Idle]
    /\ plugin = NotInitialized(Undefined, Undefined)

StartParsed(i) ==
    /\ inv[i].pc = "idle"
    /\ \E text \in ParseTexts :
        Put(i, [Idle EXCEPT !.pc = "start",
                    !.op = "SWIG_TRANSFER_TOKEN_TO_ADDRESS", !.caller = "K1",
                    !.text = text, !.eligible = Eligible(text),
                    !.keyOk = TRUE, !.keySetting = "base58",
                    !.hasSlot = TRUE])
    /\ UNCHANGED swig

NextParse ==
    \/ StartParsed("s1") \/ Gate("s1") \/ LoadKey("s1") \/ Fetch("s1")
    \/ GetMint("s1") \/ GetAccount("s1") \/ Build("s1") \/ Blockhash("s1")
    \/ Sign("s1") \/ Send("s1") \/ Confirm("s1") \/ Return("s1")

SpecParse == InitParse /\ [][NextParse]_vars

(***************************************************************************)
(* The operations that name an authority, on messages that carry both a    *)
(* role id and an address.                                                 *)
(***************************************************************************)
TargetOps ==
    {"REMOVE_SWIG_AUTHORITY", "SWIG_TRANSFER_TO_AUTHORITY",
     "SWIG_TRANSFER_TOKEN_TO_AUTHORITY"}

TargetTexts(op) ==
    LET both == {<<"role", id, k>> : id \in NumTokens, k \in {"K2", "K3"}}
                \cup {<<"authority", k, "role", id>> :
                          id \in NumTokens, k \in {"K2", "K3"}}
    IN  CASE op = "REMOVE_SWIG_AUTHORITY" -> {<<"remove">> \o t : t \in both}
          [] op = "SWIG_TRANSFER_TO_AUTHORITY" ->
                {<<"transfer", "1", "from", "swig", "to">> \o t : t \in both}
          [] OTHER ->
                {<<"transfer", "1", "tokens", "mint", "MintA", "from", "swig",
                   "to">> \o t : t \in both}

InitTarget ==
    /\ swig \in [Wallets -> {NoWallet, WalletOf(<<"K1", "K2">>),
                              WalletOf(<<"K1", "K2", "K3">>)}]
    /\ swig["W1"] # NoWallet
    /\ swig["W2"] = NoWallet
    /\ inv = [i \in Slots |-> Idle]
    /\ plugin = NotInitialized(Undefined, Undefined)

StartTargeted(i) ==
    /\ inv[i].pc = "idle"
    /\ \E op \in TargetOps :
        \E text \in TargetTexts(op) :
            Put(i, [Idle EXCEPT !.pc = "start", !.op = op, !.caller = "K1",
                        !.text = text, !.eligible = Eligible(text),
                        !.keyOk = TRUE, !.keySetting = "base58",
                        !.hasSlot = TRUE])
    /\ UNCHANGED swig

NextTarget ==
    \/ StartTargeted("s1") \/ Gate("s1") \/ LoadKey("s1") \/ Fetch("s1")
    \/ GetMint("s1") \/ GetAccount("s1") \/ Build("s1") \/ Blockhash("s1")
    \/ Sign("s1") \/ Send("s1") \/ Confirm("s1") \/ Return("s1")

SpecTarget == InitTarget /\ [][NextTarget]_vars

(***************************************************************************)
(* The amount of a token transfer, from the message to the base units the  *)
(* transfer instruction carries into an empty token account, and back      *)
(* through the balance query.                                              *)
(***************************************************************************)
InitAmount ==
    /\ swig \in [Wallets -> {WalletOf(<<"K1", "K2">>)}]
    /\ inv = [i \in Slots |-> Idle]
    /\ plugin = NotInitialized(Undefined, Undefined)

\* TRANSFER_TOKEN_TO_SWIG is called with an amount in its message
StartAmount(i) ==
    /\ inv[i].pc = "idle"
    /\ \E t \in AmountTexts :
        Put(i, [Idle EXCEPT !.pc = "getMint", !.op = "TRANSFER_TOKEN_TO_SWIG",
                    !.caller = "K1", !.amountText = t, !.hasSlot = TRUE])
    /\ UNCHANGED swig

\* mintInfo = await getMint(...); adjustedAmount = amount * 10^decimals
ScaleAmount(i) ==
    LET r == inv[i]
    IN  /\ r.pc = "getMint" /\ r.amountText # "none"
        /\ \E decimals \in MintDecimals :
            Put(i, [r EXCEPT !.pc = "build", !.decimals = decimals,
                        !.adjusted = adjustedAmount(r.amountText, decimals)])
        /\ UNCHANGED swig

\* createTransferInstruction(fromAta, toAta, owner, adjustedAmount) encodes
\* BigInt(amount), which throws a RangeError for a number that is not an
\* integer; the transaction then lands in the empty token account
TransferAmount(i) ==
    LET r == inv[i]
    IN  /\ r.pc = "build" /\ r.amountText # "none"
        /\ Put(i, IF IsInteger(r.adjusted)
                  THEN [r EXCEPT !.pc = "getAccount", !.landed = TRUE,
                                 !.units = IntOf(r.adjusted)]
                  ELSE Catch(r, "amount_error", "build"))
        /\ UNCHANGED swig

\* GET_SWIG_TOKEN_BALANCE: balance = Number(tokenAccount.amount);
\* adjustedBalance = balance / 10^decimals
QueryAmount(i) ==
    LET r == inv[i]
    IN  /\ r.pc = "getAccount" /\ r.amountText # "none"
        /\ Put(i, [r EXCEPT !.pc = "done", !.result = "returned",
                       !.queried = adjustedBalance(r.units, r.decimals)])
        /\ UNCHANGED swig

NextAmount ==
    \/ StartAmount("s1") \/ ScaleAmount("s1") \/ TransferAmount("s1")
    \/ QueryAmount("s1") \/ Return("s1")

SpecAmount == InitAmount /\ [][NextAmount]_vars

(***************************************************************************)
(* One invocation at a time, for messages of several sources, with and     *)
(* without response slot and callback, feature switches set or not.        *)
(***************************************************************************)
InitPayload ==
    /\ swig \in [Wallets -> {NoWallet, WalletOf(<<"K1", "K2">>)}]
    /\ swig["W2"] = NoWallet
    /\ inv = [i \in Slots |-> Idle]
    /\ plugin = NotInitialized(Undefined, Undefined)

StartSourced(i) ==
    /\ inv[i].pc = "idle"
    /\ \E op \in Ops, source \in Sources, hasCb \in BOOLEAN,
          hasSlot \in BOOLEAN, setting \in {Undefined, "false"} :
        \E text \in Messages(op) :
            Put(i, [Idle EXCEPT !.pc = "start", !.op = op, !.caller = "K1",
                        !.text = text, !.eligible = Eligible(text),
                        !.tset = setting, !.aset = setting,
                        !.keyOk = TRUE, !.keySetting = "base58",
                        !.source = source,
                        !.hasCb = hasCb, !.hasSlot = hasSlot])
    /\ UNCHANGED swig

NextPayload == StartSourced("s1") \/ Step("s1")

SpecPayload == InitPayload /\ [][NextPayload]_vars

(***************************************************************************)
(* Properties.                                                             *)
(***************************************************************************)
Ended(r) == r.pc \in {"callback", "done"}

\* C1: with the transfers-enabled setting false, every handler that moves
\* value into or out of the wallet replies with the disabled-feature payload
\* and never signs or submits a transaction.
C1_TransfersDisabledRefuseAll ==
    \A i \in Slots :
        LET r == inv[i]
        IN  r.op \in TransferOps /\ ~transfersEnabled(r.tset)
            => /\ r.signs = 0
               /\ r.sends = 0
               /\ (Ended(r) => r.reply.kind = "disabled")

\* SWIG_TRANSFER_TO_ADDRESS with the setting false: sent and confirmed
C1_Witness ==
    LET r == inv["s1"]
    IN  /\ r.op = "SWIG_TRANSFER_TO_ADDRESS" /\ r.tset = "false"
        /\ r.pc = "done" /\ r.signs = 1 /\ r.sends = 1 /\ r.confirmed
        /\ r.reply.kind = "success"

\* C2: with the authority-management-enabled setting false, ADD_SWIG_AUTHORITY
\* and REMOVE_SWIG_AUTHORITY reply with the disabled-feature payload and
\* submit nothing, while GET_SWIG_AUTHORITIES is not refused.
C2_AuthorityManagementDisabledRefuseBoth ==
    \A i \in Slots :
        LET r == inv[i]
        IN  ~authorityManagementEnabled(r.aset)
            => /\ r.op \in {"ADD_SWIG_AUTHORITY", "REMOVE_SWIG_AUTHORITY"}
                  => r.sends = 0 /\ (Ended(r) => r.reply.kind = "disabled")
               /\ r.op = "GET_SWIG_AUTHORITIES" => r.reply.kind # "disabled"

\* ADD_SWIG_AUTHORITY with the setting false: the role was added
C2_Witness ==
    LET r == inv["s1"]
    IN  /\ r.op = "ADD_SWIG_AUTHORITY" /\ r.aset = "false"
        /\ r.pc = "done" /\ r.sends = 1 /\ r.confirmed
        /\ r.reply.kind = "success"
        /\ Len(swig["W1"].roles) = Len(r.roles) + 1

\* C3: an invocation that delivered a failure payload has submitted no
\* transaction, and an invocation that submitted one ends with it confirmed
\* and a success reply.
C3_FailureMeansNothingSubmitted ==
    \A i \in Slots :
        LET r == inv[i]
        IN  /\ r.reply.kind = "failure" => r.sends = 0
            /\ r.pc = "done" /\ r.sends > 0
               => r.confirmed /\ r.reply.kind = "success"

\* the transaction was sent, the confirmation wait threw, the reply is a failure
C3_Witness ==
    LET r == inv["s1"]
    IN  /\ r.pc = "done" /\ r.sends = 1 /\ ~r.confirmed
        /\ r.errStage = "confirm" /\ r.reply.kind = "failure"

\* C4: every invocation completes by returning normally, never by raising
\* to the runtime, and has produced a payload by then.
C4_HandlerNeverRaises ==
    \A i \in Slots :
        LET r == inv[i]
        IN  r.pc = "done" => r.result = "returned" /\ r.reply # NoPayload

\* the callback threw while delivering the error payload of the catch block
C4_Witness ==
    LET r == inv["s1"]
    IN  /\ r.pc = "done" /\ r.result = "raised" /\ r.cbMode = "catch"
        /\ r.errStage = "fetch"

\* C5: the response slot is written at most once per invocation, so a
\* success payload in it is never overwritten with a failure payload.
C5_SlotWrittenAtMostOnce ==
    \A i \in Slots : inv[i].slotWrites <= 1

\* success written, the callback threw, the catch block wrote a failure
C5_Witness ==
    LET r == inv["s1"]
    IN  /\ r.slotWrites = 2 /\ r.slot.kind = "failure"
        /\ Len(r.cbCalls) = 2 /\ r.cbCalls[1].kind = "success"
        /\ r.sends = 1 /\ r.confirmed

\* C6: whatever the interleaving of REMOVE_SWIG_AUTHORITY invocations, the
\* role list of an existing wallet is never empty.
C6_RoleListNeverEmpty ==
    \A a \in Wallets : swig[a].exists => Len(swig[a].roles) >= 1

\* two removals by the wallet's owner overlapped: both read the three-role
\* list before either transaction landed, and both landed
C6_Witness ==
    /\ inv["s1"].sends = 1 /\ inv["s2"].sends = 1
    /\ inv["s1"].caller = "K1" /\ inv["s2"].caller = "K1"
    /\ Len(inv["s1"].roles) = 3 /\ Len(inv["s2"].roles) = 3
    /\ inv["s1"].target # inv["s2"].target
    /\ Len(swig["W1"].roles) = 1

\* the caller's key is bound to a role of the fetched list
HoldsRole(r) == \E j \in 1..Len(r.roles) : r.roles[j].authority = r.caller

\* the role a REMOVE_SWIG_AUTHORITY message names in the fetched list:
\* by role id when the text has one, otherwise by the first address
NamedIdx(r) ==
    IF roleIdMatch(r.text) # NoMatch
    THEN FirstIdx({j \in 1..Len(r.roles) :
                      r.roles[j].id = NumVal(roleIdMatch(r.text))})
    ELSE FirstIdx({j \in 1..Len(r.roles) :
                      r.roles[j].authority = publicKeyMatch(r.text)})

RemoveFetched(r) == r.op = "REMOVE_SWIG_AUTHORITY" /\ r.fetched

\* C7 (as stated): on a wallet with exactly one role, a removal request
\* naming that role fails with the last-authority error whoever calls.
C7_LastAuthorityWhoeverCalls ==
    \A i \in Slots :
        LET r == inv[i]
        IN  RemoveFetched(r) /\ Len(r.roles) = 1 /\ NamedIdx(r) = 1
            => r.reply.kind = "failure" /\ r.reply.err = "last_authority"
               /\ r.sends = 0

\* C7 (amended): on a wallet with exactly one role, a removal request naming
\* that role submits nothing and fails with the last-authority error when
\* the caller holds the role, with the not-an-authority error otherwise.
C7_LastAuthorityForRoleHolder ==
    \A i \in Slots :
        LET r == inv[i]
        IN  RemoveFetched(r) /\ Len(r.roles) = 1 /\ NamedIdx(r) = 1
            => /\ r.reply.kind = "failure"
               /\ r.reply.err = IF HoldsRole(r) THEN "last_authority"
                                ELSE "not_authority"
               /\ r.ixs = NoIxs /\ r.signs = 0 /\ r.sends = 0

C7_Witness ==
    LET r == inv["s1"]
    IN  /\ RemoveFetched(r) /\ Len(r.roles) = 1 /\ NamedIdx(r) = 1
        /\ HoldsRole(r) /\ r.pc = "done" /\ r.reply.err = "last_authority"
        /\ roleIdMatch(r.text) = NoMatch

\* a removal request that C8 is about: two or more roles, the caller holds
\* one, the named role exists and is bound to another key
Removable(r) ==
    /\ RemoveFetched(r) /\ Len(r.roles) >= 2 /\ HoldsRole(r)
    /\ NamedIdx(r) # 0
    /\ r.roles[NamedIdx(r)].authority # r.caller

CheckErrors ==
    {"not_authority", "role_not_found", "authority_not_found", "no_target",
     "last_authority", "self_removal"}

\* C8: such a request passes every check; the one instruction it builds and
\* submits removes the named role on behalf of the caller's first role, and
\* when the transaction lands the role list has one entry fewer, without
\* the named role and with the caller's role.
C8_RemovalOfOtherRole ==
    /\ [](\A i \in Slots :
            LET r == inv[i]
                t == r.roles[NamedIdx(r)]
                mine == FirstIdx({j \in 1..Len(r.roles) :
                                    r.roles[j].authority = r.caller})
            IN  Removable(r)
                => /\ r.err \notin CheckErrors
                   /\ r.target = t
                   /\ r.agentRole = r.roles[mine]
                   /\ r.sends <= 1
                   /\ r.ixs \in {NoIxs,
                         <<[kind |-> "removeAuthority", role |-> r.roles[mine].id,
                            payer |-> r.caller, target |-> t.id,
                            authority |-> t.authority, from |-> NoKey,
                            to |-> NoKey, wrapped |-> FALSE,
                            actions |-> NoActions]>>}
                   /\ (r.sends = 1 => r.ixs # NoIxs))
    /\ [][\A i \in Slots :
            LET r == inv[i]
                after == swig'[findSwigPda(r.caller)].roles
            IN  Removable(r) /\ inv'[i].landed /\ ~r.landed
                => /\ Len(after) = Len(r.roles) - 1
                   /\ \A j \in 1..Len(after) : after[j].id # r.target.id
                   /\ \E j \in 1..Len(after) : after[j].authority = r.caller]_vars

C8_Witness ==
    LET r == inv["s1"]
    IN  /\ Removable(r) /\ r.pc = "done" /\ r.sends = 1 /\ r.landed
        /\ r.confirmed /\ r.reply.kind = "success"
        /\ Len(swig["W1"].roles) = Len(r.roles) - 1

\* a removal request whose target authority key is the caller's own key,
\* named by role id or by address
SelfTargeted(r) ==
    /\ RemoveFetched(r)
    /\ IF roleIdMatch(r.text) # NoMatch
       THEN NamedIdx(r) # 0 /\ r.roles[NamedIdx(r)].authority = r.caller
       ELSE publicKeyMatch(r.text) = r.caller

C10_NotAnAuthority ==
    \A i \in Slots :
        LET r == inv[i]
        IN  r.op \in RoleOps /\ r.fetched /\ ~HoldsRole(r)
            => /\ r.reply.kind = "failure"
               /\ r.reply.err = "not_authority"
               /\ r.ixs = NoIxs /\ r.signs = 0 /\ r.sends = 0

C10_Witness ==
    LET r == inv["s1"]
    IN  /\ r.op = "SWIG_TRANSFER_TOKEN_TO_ADDRESS" /\ r.fetched /\ ~HoldsRole(r)
        /\ Len(r.roles) >= 1 /\ r.pc = "done" /\ r.reply.err = "not_authority"

\* the operations that resolve a destination or target among the roles
ResolveOps ==
    {"SWIG_TRANSFER_TO_AUTHORITY", "SWIG_TRANSFER_TOKEN_TO_AUTHORITY",
     "REMOVE_SWIG_AUTHORITY"}

\* the invocation reached the resolution of its target: the role list was
\* fetched, the caller holds a role, the token operation names its mint
Resolving(r) ==
    /\ r.op \in ResolveOps /\ r.fetched /\ HoldsRole(r)
    /\ r.op = "SWIG_TRANSFER_TOKEN_TO_AUTHORITY" => mintMatch(r.text) # NoMatch

\* C11: a target given as a role id resolves if and only if a role with that
\* id is in the fetched role list; the resolved authority is then that
\* role's key, and otherwise the operation ends with the role-not-found error.
C11_RoleIdResolution ==
    \A i \in Slots :
        LET r == inv[i]
            id == NumVal(roleIdMatch(r.text))
            hits == {j \in 1..Len(r.roles) : r.roles[j].id = id}
        IN  Resolving(r) /\ roleIdMatch(r.text) # NoMatch
            => IF hits = {}
               THEN /\ r.reply.kind = "failure" /\ r.reply.err = "role_not_found"
                    /\ r.ixs = NoIxs /\ r.sends = 0
               ELSE /\ r.err # "role_not_found"
                    /\ r.op # "REMOVE_SWIG_AUTHORITY"
                       => \E j \in hits : r.recipient = r.roles[j].authority
                    /\ r.op = "REMOVE_SWIG_AUTHORITY" /\ r.err \notin CheckErrors
                       => \E j \in hits : r.target = r.roles[j]
                    /\ \A k \in 1..Len(r.ixs) :
                          /\ r.ixs[k].kind \in {"transfer", "tokenTransfer"}
                             => \E j \in hits : r.ixs[k].to = r.roles[j].authority
                          /\ r.ixs[k].kind = "removeAuthority"
                             => r.ixs[k].target = id

\* a token transfer to 'role 1' resolved to the key of role 1 and was sent
C11_Witness ==
    LET r == inv["s1"]
    IN  /\ r.op = "SWIG_TRANSFER_TOKEN_TO_AUTHORITY" /\ Resolving(r)
        /\ roleIdMatch(r.text) = "1" /\ r.recipient = "K2"
        /\ r.pc = "done" /\ r.sends = 1 /\ r.reply.kind = "success"

\* the address an authority-targeted transfer names when it has no role id
NamedAddress(r) ==
    IF r.op = "SWIG_TRANSFER_TO_AUTHORITY" THEN publicKeyMatch(r.text)
    ELSE authorityMatch(r.text)

\* C12: an authority-targeted transfer that names its destination by address
\* resolves if and only if some role of the fetched list is bound to that
\* address; otherwise it fails with the is-not-an-authority error and
\* nothing is built or submitted.
C12_AddressResolution ==
    \A i \in Slots :
        LET r == inv[i]
            addr == NamedAddress(r)
            member == \E j \in 1..Len(r.roles) : r.roles[j].authority = addr
        IN  /\ Resolving(r) /\ r.op # "REMOVE_SWIG_AUTHORITY"
            /\ roleIdMatch(r.text) = NoMatch /\ addr # NoMatch
            => IF member
               THEN /\ r.err # "address_not_authority"
                    /\ r.recipient = addr
                    /\ \A k \in 1..Len(r.ixs) :
                          r.ixs[k].kind \in {"transfer", "tokenTransfer"}
                          => r.ixs[k].to = addr
               ELSE /\ r.reply.kind = "failure"
                    /\ r.reply.err = "address_not_authority"
                    /\ r.ixs = NoIxs /\ r.signs = 0 /\ r.sends = 0

\* 'transfer 1 from swig to authority K2' on a wallet without a role of K2
C12_Witness ==
    LET r == inv["s1"]
    IN  /\ r.op = "SWIG_TRANSFER_TO_AUTHORITY" /\ Resolving(r)
        /\ roleIdMatch(r.text) = NoMatch /\ NamedAddress(r) = "K2"
        /\ r.pc = "done" /\ r.reply.err = "address_not_authority"

\* a message with the wallet word, a transfer word, an amount, one address
\* and no authority, signer or role word
PlainAddressTransfer(text) ==
    /\ hasSwigWord(text) /\ hasTransferWord(text)
    /\ \E j \in 1..Len(text) : text[j] \in NumTokens
    /\ Len(addresses(text)) = 1
    /\ ~hasAuthorityWord(text)

\* C13: for such a message the authority-targeted predicate is false and the
\* address-targeted one is true, and the address-targeted handler, when the
\* caller holds a role, builds the role-wrapped transfer to that address
\* whether or not the address is an authority of the wallet.
C13_PlainAddressRouting ==
    \A i \in Slots :
        LET r == inv[i]
        IN  r.op = "SWIG_TRANSFER_TO_ADDRESS" /\ PlainAddressTransfer(r.text)
            => /\ "SWIG_TRANSFER_TO_AUTHORITY" \notin r.eligible
               /\ "SWIG_TRANSFER_TO_ADDRESS" \in r.eligible
               /\ r.fetched /\ HoldsRole(r)
                  => /\ r.errStage \notin {"parse", "resolve"}
                     /\ r.recipient = addresses(r.text)[1]
                     /\ r.feePayer # NoKey
                        => /\ Len(r.ixs) = 1
                           /\ r.ixs[1].kind = "transfer" /\ r.ixs[1].wrapped
                           /\ r.ixs[1].to = addresses(r.text)[1]

\* 'swig pay 1 to <address with an upper-case L>': the handler would send the
\* transfer, but the address-targeted predicate rejects the text
C13_Witness ==
    LET r == inv["s1"]
    IN  /\ r.op = "SWIG_TRANSFER_TO_ADDRESS" /\ PlainAddressTransfer(r.text)
        /\ "SWIG_TRANSFER_TO_ADDRESS" \notin r.eligible
        /\ r.recipient = "KL" /\ r.sends = 1 /\ r.pc = "done"

\* every authorization check of the operation passes on the fetched list
ChecksPass(r) ==
    /\ HoldsRole(r)
    /\ IF r.op = "REMOVE_SWIG_AUTHORITY"
       THEN /\ NamedIdx(r) # 0
            /\ Len(r.roles) >= 2
            /\ r.roles[NamedIdx(r)].authority # r.caller
       ELSE IF roleIdMatch(r.text) # NoMatch
            THEN \E j \in 1..Len(r.roles) :
                    r.roles[j].id = NumVal(roleIdMatch(r.text))
            ELSE \E j \in 1..Len(r.roles) :
                    r.roles[j].authority = NamedAddress(r)

\* nothing of a transaction exists: no instruction, no fee payer, no
\* blockhash, no signature, no submission
NothingBuilt(r) ==
    /\ r.ixs = NoIxs /\ r.feePayer = NoKey
    /\ r.blockhashes = 0 /\ r.signs = 0 /\ r.sends = 0 /\ ~r.landed

\* C14: in the operations that resolve an authority, the authorization
\* checks run after the role list is fetched and before the first
\* instruction is built: nothing is built before the fetch, an invocation
\* that fails a check has built, fetched a blockhash for, signed and
\* submitted nothing, and whatever is built was built after every check
\* passed.
C14_ChecksBeforeBuild ==
    \A i \in Slots :
        LET r == inv[i]
        IN  r.op \in ResolveOps
            => /\ ~r.fetched => NothingBuilt(r)
               /\ r.errStage = "resolve" => r.fetched /\ NothingBuilt(r)
               /\ r.fetched /\ ~ChecksPass(r)
                  => /\ NothingBuilt(r)
                     /\ r.pc \notin {"build", "getMint", "getAccount",
                                     "blockhash", "sign", "send", "confirm"}
                     /\ r.reply.kind # "success"
               /\ ~NothingBuilt(r) => r.fetched /\ ChecksPass(r)

\* a removal naming the caller's own key ended at the check: list fetched,
\* nothing built
C14_Witness ==
    LET r == inv["s1"]
    IN  /\ r.op = "REMOVE_SWIG_AUTHORITY" /\ r.fetched /\ r.pc = "done"
        /\ r.errStage = "resolve" /\ r.err = "self_removal"
        /\ NothingBuilt(r)

\* the creation transactions the invocations of the owner key submitted
CreatesSubmitted(pk) ==
    LET n(i) == IF inv[i].op = "CREATE_SWIG" /\ inv[i].caller = pk
                THEN inv[i].sends ELSE 0
    IN  n("s1") + n("s2")

\* C15: whatever the number and the interleaving of the CREATE_SWIG
\* invocations of one owner key, at most one creation transaction is ever
\* submitted, a wallet that exists came from at most one of them, and an
\* invocation that found the wallet reports its address and writes nothing.
C15_CreateIdempotent ==
    /\ CreatesSubmitted("K1") <= 1
    /\ \A i \in Slots :
          LET r == inv[i]
          IN  r.op = "CREATE_SWIG" /\ r.fetched /\ r.roles # <<>>
              => /\ r.reply.kind = "existing"
                 /\ r.reply.address = findSwigPda(r.caller)
                 /\ r.ixs = NoIxs /\ r.sends = 0

\* both invocations fetched before either submitted: two creation
\* transactions were sent for the one key
C15_Witness ==
    /\ inv["s1"].op = "CREATE_SWIG" /\ inv["s2"].op = "CREATE_SWIG"
    /\ inv["s1"].caller = inv["s2"].caller
    /\ inv["s1"].sends = 1 /\ inv["s2"].sends = 1
    /\ inv["s1"].landed /\ ~inv["s2"].landed
    /\ inv["s2"].reply.kind = "success"

\* a CREATE_SWIG invocation whose fetch found no wallet for the caller
CreatingNew(r) == r.op = "CREATE_SWIG" /\ r.fetched /\ r.roles = <<>>

\* C16: when no wallet exists for the caller, CREATE_SWIG composes exactly
\* one instruction, a creation whose authority is the caller's key with the
\* full permission set, whose id is the caller's key (so that the account is
\* the caller's wallet address) and whose payer is the caller; it submits
\* it at most once, a landed creation leaves a wallet with the caller as
\* its one role, and the success reply carries the wallet address.
C16_CreateNewWallet ==
    \A i \in Slots :
        LET r == inv[i]
            a == findSwigPda(r.caller)
        IN  CreatingNew(r)
            => /\ Len(r.ixs) = 1
               /\ r.ixs[1].kind = "create" /\ ~r.ixs[1].wrapped
               /\ r.ixs[1].authority = r.caller
               /\ r.ixs[1].actions = ActionsAll
               /\ r.ixs[1].from = r.caller /\ r.ixs[1].to = a
               /\ r.ixs[1].payer = r.caller /\ r.feePayer = r.caller
               /\ r.sends <= 1
               /\ r.landed
                  => /\ swig[a].exists
                     /\ swig[a].roles = <<Role(0, r.caller)>>
               /\ r.reply.kind = "success"
                  => /\ r.sends = 1 /\ r.confirmed
                     /\ r.reply.address = a
               /\ r.reply.kind # "existing"

\* a creation on an absent wallet landed and the reply gives the address
C16_Witness ==
    LET r == inv["s1"]
    IN  /\ CreatingNew(r) /\ r.landed /\ r.pc = "done"
        /\ r.reply.kind = "success" /\ r.reply.address = "W1"
        /\ swig["W1"].roles = <<Role(0, "K1")>>

\* the positions of the instructions of a kind in the composed list
IxsOf(r, kind) == {k \in 1..Len(r.ixs) : r.ixs[k].kind = kind}

\* C17: every operation that composed a token transfer, TRANSFER_TO_SWIG
\* with a mint included, looked up the destination's token account first,
\* and its instruction list has an account-creation instruction, for the
\* destination and before the transfer, if and only if the lookup found
\* the account absent.
C17_DestinationAccountChecked ==
    \A i \in Slots :
        LET r == inv[i]
        IN  IxsOf(r, "tokenTransfer") # {}
            => /\ r.toAccount \in {"exists", "absent"}
               /\ r.toAccount = "absent" <=> IxsOf(r, "createAta") # {}
               /\ \A c \in IxsOf(r, "createAta"), t \in IxsOf(r, "tokenTransfer") :
                     c < t /\ r.ixs[c].to = r.ixs[t].to

\* TRANSFER_TO_SWIG with a mint sent its token transfer without ever
\* looking at the wallet's token account
C17_Witness ==
    LET r == inv["s1"]
    IN  /\ r.op = "TRANSFER_TO_SWIG" /\ r.mint # NoMatch
        /\ IxsOf(r, "tokenTransfer") # {} /\ r.toAccount = "unknown"
        /\ r.sends = 1 /\ r.pc = "done"

\* C18: the payer of every composed token-account creation instruction is
\* the caller's own key and never a wallet address, in TRANSFER_TOKEN_TO_SWIG,
\* SWIG_TRANSFER_TOKEN_TO_ADDRESS and SWIG_TRANSFER_TOKEN_TO_AUTHORITY,
\* before and after the list is wrapped for the caller's role.
C18_AccountCreationPaidByCaller ==
    \A i \in Slots :
        LET r == inv[i]
        IN  \A c \in IxsOf(r, "createAta") :
                /\ r.op \in {"TRANSFER_TOKEN_TO_SWIG",
                             "SWIG_TRANSFER_TOKEN_TO_ADDRESS",
                             "SWIG_TRANSFER_TOKEN_TO_AUTHORITY"}
                /\ r.ixs[c].payer = r.caller
                /\ r.ixs[c].payer \notin Wallets \cup {"W3"}
                /\ r.ixs[c].payer # findSwigPda(r.caller)

\* a token transfer out of the wallet was sent with a wrapped creation of
\* the recipient's account
C18_Witness ==
    LET r == inv["s1"]
    IN  /\ r.op = "SWIG_TRANSFER_TOKEN_TO_AUTHORITY" /\ r.sends = 1
        /\ \E c \in IxsOf(r, "createAta") :
              r.ixs[c].wrapped /\ r.ixs[c].payer = "K1"

\* the transfer instructions of the transaction of an invocation
TransfersOf(r) ==
    IF r.feePayer = NoKey THEN {}
    ELSE IxsOf(r, "transfer") \cup IxsOf(r, "tokenTransfer")

Composed(r) == <<r.ixs, r.feePayer, r.fetched, r.roles, r.mint, r.toAccount>>

\* C20: an invocation that submits goes through its steps in one order:
\* instructions composed, fee payer set to the caller's key, blockhash
\* fetched, transaction signed, sent, confirmation awaited, success payload
\* delivered. Each step happens at most once and only after the one before
\* it; between the blockhash fetch and the signature nothing is read from
\* the chain or composed; the success payload of a submitting invocation
\* is delivered only after the confirmation returned.
C20_SubmissionOrder ==
    /\ [](\A i \in Slots :
            LET r == inv[i]
            IN  /\ r.feePayer # NoKey => r.ixs # NoIxs /\ r.feePayer = r.caller
                /\ r.blockhashes <= 1
                /\ r.blockhashes = 1 => r.feePayer = r.caller
                /\ r.signs <= r.blockhashes
                /\ r.sends <= r.signs
                /\ r.landed => r.sends = 1
                /\ r.confirmed => r.sends = 1
                /\ r.pc = "sign" <=> r.blockhashes = 1 /\ r.signs = 0 /\ r.err = "none"
                /\ r.reply.kind = "success" /\ r.ixs # NoIxs
                   => r.confirmed /\ r.err = "none")
    /\ [][\A i \in Slots :
            LET r == inv[i]
                q == inv'[i]
            IN  /\ r.blockhashes = 1 /\ q # Idle => Composed(q) = Composed(r)
                /\ r.pc = "sign"
                   => q = r \/ q.signs = 1 \/ q.errStage = "sign"
                /\ q.reply.kind = "success" /\ r.reply.kind # "success"
                   /\ q.ixs # NoIxs
                   => r.pc = "confirm" /\ q.confirmed]_vars

\* an authority addition went through every step and replied success
C20_Witness ==
    LET r == inv["s1"]
    IN  /\ r.op = "ADD_SWIG_AUTHORITY" /\ r.pc = "done"
        /\ r.blockhashes = 1 /\ r.signs = 1 /\ r.sends = 1 /\ r.landed
        /\ r.confirmed /\ r.reply.kind = "success"

\* the submission steps in the order of the code, and what follows them
SubmitStages == <<"blockhash", "sign", "send", "confirm">>

StageNo(pc) ==
    IF \E k \in 1..Len(SubmitStages) : SubmitStages[k] = pc
    THEN CHOOSE k \in 1..Len(SubmitStages) : SubmitStages[k] = pc
    ELSE IF pc \in {"callback", "done"} THEN Len(SubmitStages) + 1
    ELSE 0

\* C21: no handler retries. In one invocation the blockhash is fetched, the
\* transaction signed, sent and its confirmation awaited at most once each:
\* every step out of a submission stage goes to a later stage or to the
\* reply, never back. A failure of one of these steps goes directly to the
\* failure reply, after which nothing more is fetched, signed or sent.
C21_NoRetry ==
    /\ [](\A i \in Slots :
            LET r == inv[i]
            IN  /\ r.blockhashes <= 1 /\ r.signs <= 1 /\ r.sends <= 1
                /\ r.errStage \in {"blockhash", "sign", "send", "confirm"}
                   => /\ r.pc \in {"callback", "done"}
                      /\ r.reply.kind = "failure" /\ r.reply.err = r.err
                      /\ ~r.confirmed)
    /\ [][\A i \in Slots :
            LET r == inv[i]
                q == inv'[i]
            IN  /\ StageNo(r.pc) \in 1..Len(SubmitStages) /\ q # r
                   => /\ StageNo(q.pc) > StageNo(r.pc)
                      /\ q.err # "none"
                         => /\ q.errStage = r.pc /\ q.reply.kind = "failure"
                            /\ q.blockhashes = r.blockhashes
                            /\ q.signs = r.signs /\ q.sends = r.sends
                /\ r.errStage \in {"blockhash", "sign", "send", "confirm"}
                   /\ q # Idle
                   => /\ q.blockhashes = r.blockhashes /\ q.signs = r.signs
                      /\ q.sends = r.sends /\ q.confirmed = r.confirmed
                      /\ q.reply = r.reply]_vars

\* sendRawTransaction threw: the invocation ended with the failure reply,
\* one blockhash, one signature and nothing sent
C21_Witness ==
    LET r == inv["s1"]
    IN  /\ r.op = "SWIG_TRANSFER_TO_ADDRESS" /\ r.errStage = "send"
        /\ r.pc = "done" /\ r.reply.kind = "failure"
        /\ r.blockhashes = 1 /\ r.signs = 1 /\ r.sends = 0

\* the operations that only read, and wallet creation
ReadOnlyOps ==
    {"GET_SWIG_BALANCE", "GET_SWIG_TOKEN_BALANCE", "GET_SWIG_AUTHORITIES",
     "CREATE_SWIG"}

\* C22: after initialization with transfers disabled the action list still
\* holds the balance, token-balance, list-authorities and create-wallet
\* operations; their handlers never refuse on the transfers flag, and a
\* balance query whose key loads and whose chain read returns ends with
\* the success payload, as it does with transfers enabled.
C22_ReadOnlyStaysAvailable ==
    /\ plugin.initialized => ReadOnlyOps \subseteq Registered
    /\ \A i \in Slots :
          LET r == inv[i]
          IN  r.op \in ReadOnlyOps
              => /\ r.reply.kind # "disabled" /\ r.err # "disabled"
                 /\ r.pc # "start"
                    => r.pc = "loadKey" \/ r.errStage = "key" \/ r.keyOk
                 /\ r.op = "GET_SWIG_BALANCE" /\ Ended(r)
                    => \/ r.reply.kind = "success" /\ r.err = "none"
                       \/ r.reply.kind = "failure"
                          /\ r.err \in {"no_wallet", "chain_error",
                                        "callback_error"}

\* with SWIG_TRANSFERS_ENABLED 'false' a balance query was selected from
\* the plugin's actions and succeeded
C22_Witness ==
    LET r == inv["s1"]
    IN  /\ plugin.initialized /\ plugin.tset = "false"
        /\ r.op = "GET_SWIG_BALANCE" /\ r.tset = "false"
        /\ r.pc = "done" /\ r.reply.kind = "success"

\* C23: after initialization with transfers disabled the action list holds
\* no operation that sends SOL or tokens to or from the wallet, only wallet
\* creation, the balance queries and the authority listing; no invocation
\* the runtime starts from that list composes or sends a transfer.
C23_DisabledListHasNoTransfer ==
    /\ plugin.initialized /\ ~areTransfersEnabled(plugin.tset)
       => /\ Registered \cap TransferOps = {}
          /\ Registered = ReadOnlyOps
    /\ \A i \in Slots :
          LET r == inv[i]
          IN  ~areTransfersEnabled(plugin.tset) /\ r.op # "none"
              => /\ r.op \in ReadOnlyOps
                 /\ IxsOf(r, "transfer") \cup IxsOf(r, "tokenTransfer") = {}

\* with SWIG_TRANSFERS_ENABLED 'false' the list has four actions and one
\* of them, the authority listing, ran
C23_Witness ==
    /\ plugin.initialized /\ plugin.tset = "false"
    /\ Len(plugin.actions) = 4
    /\ inv["s1"].op = "GET_SWIG_AUTHORITIES" /\ inv["s1"].pc = "done"

\* C24: the two switches are independent. After initialization the
\* add-authority and remove-authority operations are in the action list
\* exactly when authority management is enabled, and each transfer
\* operation exactly when transfers are enabled; so with transfers disabled
\* and authority management enabled add-authority is in the list.
C24_SwitchesIndependent ==
    plugin.initialized
    => /\ \A op \in {"ADD_SWIG_AUTHORITY", "REMOVE_SWIG_AUTHORITY"} :
             op \in Registered <=> authorityManagementEnabled(plugin.aset)
       /\ \A op \in TransferOps :
             op \in Registered <=> areTransfersEnabled(plugin.tset)

\* transfers 'false', authority management 'true': the initialized plugin
\* does not offer add-authority
C24_Witness ==
    /\ plugin.initialized /\ plugin.tset = "false" /\ plugin.aset = "true"
    /\ "ADD_SWIG_AUTHORITY" \notin Registered

\* C25: after initialization with default settings the action list holds
\* every operation: create wallet, the two balance queries, list
\* authorities, add authority, remove authority and the six transfers.
C25_DefaultListIsComplete ==
    /\ plugin.initialized /\ plugin.tset = Undefined /\ plugin.aset = Undefined
    => Registered = Ops

\* default settings: eleven actions, remove-authority not among them
C25_Witness ==
    /\ plugin.initialized /\ plugin.tset = Undefined /\ plugin.aset = Undefined
    /\ Len(plugin.actions) = 11
    /\ Ops \ Registered = {"REMOVE_SWIG_AUTHORITY"}

\* the text lacks an entity the operation needs: amount, address, mint,
\* or the role or authority it targets
MissingEntity(op, text) ==
    LET noAmount == amountMatch(text) = NoMatch
        noAddress == publicKeyMatch(text) = NoMatch
        noRoleId == roleIdMatch(text) = NoMatch
    IN  CASE op \in {"TRANSFER_TO_SWIG"} -> noAmount
          [] op \in {"TRANSFER_TOKEN_TO_SWIG", "SWIG_TRANSFER_TO_ADDRESS"} ->
                noAmount \/ noAddress
          [] op = "ADD_SWIG_AUTHORITY" -> noAddress
          [] op = "GET_SWIG_TOKEN_BALANCE" -> tokenBalanceMint(text) = NoMatch
          [] op = "SWIG_TRANSFER_TOKEN_TO_ADDRESS" ->
                tokenToAddressParse(text).err # "none"
          [] op = "REMOVE_SWIG_AUTHORITY" -> noRoleId /\ noAddress
          [] op = "SWIG_TRANSFER_TO_AUTHORITY" ->
                noAmount \/ (noRoleId /\ noAddress)
          [] op = "SWIG_TRANSFER_TOKEN_TO_AUTHORITY" ->
                \/ noAmount \/ mintMatch(text) = NoMatch
                \/ noRoleId /\ authorityMatch(text) = NoMatch
          [] OTHER -> FALSE

\* the failures that tell the user what the message must contain
ParseErrors ==
    {"no_amount", "no_recipient", "no_mint", "no_pubkey", "no_target",
     "need_two_addresses"}

\* C26: when the text lacks a required entity the invocation performs no
\* chain read or write (no role-list fetch, no mint or account lookup, no
\* submission), and once the key is loaded it ends with a parse-guidance
\* failure.
C26_MissingEntityBeforeChain ==
    \A i \in Slots :
        LET r == inv[i]
        IN  MissingEntity(r.op, r.text)
            => /\ ~r.fetched /\ r.toAccount = "unknown"
               /\ r.pc \notin {"fetch", "getMint", "getAccount", "getBalance"}
               /\ r.sends = 0
               /\ Ended(r) /\ r.keyOk /\ r.reply.kind # "disabled"
                  /\ r.errStage # "callback"
                  => r.reply.kind = "failure" /\ r.err \in ParseErrors

\* 'transfer 1 from swig to authority' names no role and no address: the
\* role list was fetched before the handler found that out
C26_Witness ==
    LET r == inv["s1"]
    IN  /\ r.op = "SWIG_TRANSFER_TO_AUTHORITY"
        /\ MissingEntity(r.op, r.text) /\ amountMatch(r.text) # NoMatch
        /\ r.fetched /\ r.pc = "done" /\ r.err = "no_target"

\* C27: no transfer is composed or submitted with an amount that is not
\* strictly positive: an invocation of a transfer operation whose first
\* numeric token is zero composes nothing and ends with a failure reply,
\* and one without a numeric token ends with the missing-amount failure.
C27_AmountStrictlyPositive ==
    \A i \in Slots :
        LET r == inv[i]
        IN  r.op \in TransferOps
            => /\ TransfersOf(r) # {} => r.amount > 0
               /\ r.sends > 0 => r.amount > 0
               /\ amountMatch(r.text) = "0"
                  => /\ r.ixs = NoIxs
                     /\ Ended(r) => r.reply.kind \in {"failure", "disabled"}
               /\ amountMatch(r.text) = NoMatch /\ Ended(r) /\ r.keyOk
                  /\ r.reply.kind # "disabled" /\ r.errStage # "callback"
                  => r.reply.kind = "failure" /\ r.err = "no_amount"

\* 'transfer 0 SOL from swig to K3' was wrapped, sent, landed and answered
\* with the success payload
C27_Witness ==
    LET r == inv["s1"]
    IN  /\ r.op = "SWIG_TRANSFER_TO_ADDRESS" /\ amountMatch(r.text) = "0"
        /\ r.amount = 0 /\ TransfersOf(r) = {1}
        /\ r.sends = 1 /\ r.landed /\ r.reply.kind = "success"

\* C28: a token balance query for a mint for which the wallet has no
\* associated token account reports balance 0 in a success payload, not a
\* failure, in GET_SWIG_TOKEN_BALANCE and in GET_SWIG_BALANCE with a mint:
\* the lookup that found no account did not fail the invocation, and the
\* payload the handler delivers for it is the success payload with 0.
C28_AbsentAccountIsZero ==
    \A i \in Slots :
        LET r == inv[i]
        IN  /\ r.op \in {"GET_SWIG_TOKEN_BALANCE", "GET_SWIG_BALANCE"}
            /\ r.mint # NoMatch /\ r.toAccount = "absent"
            => /\ r.balance = 0
               /\ r.errStage \in {"none", "callback"}
               /\ r.errStage = "none"
                  => r.reply.kind = "success" /\ r.reply.balance = 0
               /\ r.hasCb
                  => /\ r.cbCalls[1].kind = "success"
                     /\ r.cbCalls[1].balance = 0

\* GET_SWIG_BALANCE for a mint the wallet has no account of: success, 0
C28_Witness ==
    LET r == inv["s1"]
    IN  /\ r.op = "GET_SWIG_BALANCE" /\ r.mint = "MintA"
        /\ r.toAccount = "absent" /\ r.pc = "done"
        /\ r.reply.kind = "success" /\ r.reply.balance = 0

\* the invocation is of a handler with a feature check whose setting
\* disables it
GateApplies(r) ==
    \/ /\ r.op \in {"TRANSFER_TO_SWIG", "TRANSFER_TOKEN_TO_SWIG",
                    "SWIG_TRANSFER_TOKEN_TO_AUTHORITY"}
       /\ r.tset \notin {Undefined, "true"}
    \/ /\ r.op = "REMOVE_SWIG_AUTHORITY"
       /\ r.aset \notin {Undefined, "true"}

\* the invocation as it started, with pc, reply, slot and callback fields
\* of the invocation r
Untouched(r) ==
    [Idle EXCEPT !.op = r.op, !.caller = r.caller, !.text = r.text,
                 !.eligible = r.eligible, !.tset = r.tset, !.aset = r.aset,
                 !.keyOk = r.keyOk, !.keySetting = r.keySetting,
                 !.source = r.source,
                 !.hasCb = r.hasCb, !.hasSlot = r.hasSlot,
                 !.pc = r.pc, !.reply = r.reply, !.slot = r.slot,
                 !.slotWrites = r.slotWrites, !.cbCalls = r.cbCalls,
                 !.cbMode = r.cbMode, !.result = r.result]

\* C29: a refusing feature gate acts before every other stage. The refused
\* invocation never loads the key, reads no chain state and builds no
\* instruction: beyond the reply, written once to the response slot when
\* there is one and passed once to the callback when there is one, its
\* state is as at the start, and none of its steps changes the chain.
C29_GateRefusesFirst ==
    /\ [](\A i \in Slots :
            LET r == inv[i]
            IN  /\ GateApplies(r) /\ r.pc # "start"
                   => /\ r.reply.kind = "disabled"
                      /\ r.pc \in {"callback", "done"}
                      /\ r = Untouched(r)
                      /\ r.slot = (IF r.hasSlot THEN r.reply ELSE NoPayload)
                      /\ r.slotWrites = (IF r.hasSlot THEN 1 ELSE 0)
                      /\ r.cbCalls = (IF r.hasCb THEN <<r.reply>> ELSE <<>>)
                /\ r.reply.kind = "disabled" => GateApplies(r))
    /\ [][\A i \in Slots :
            GateApplies(inv[i]) /\ inv'[i] # inv[i] /\ inv[i].pc # "idle"
            => swig' = swig]_vars

\* REMOVE_SWIG_AUTHORITY with authority management 'false': refused, the
\* reply in the slot and given to the callback, nothing else happened
C29_Witness ==
    LET r == inv["s1"]
    IN  /\ r.op = "REMOVE_SWIG_AUTHORITY" /\ r.aset = "false"
        /\ r.pc = "done" /\ r.reply.kind = "disabled"
        /\ r.hasSlot /\ r.slotWrites = 1 /\ Len(r.cbCalls) = 1
        /\ ~r.fetched /\ r.ixs = NoIxs

\* the SOLANA_PRIVATE_KEY setting is absent or is not a secret key
KeyUnusable(r) == r.keySetting \notin {"base58", "json"}

\* C30: when the key setting is absent or cannot be parsed the loader
\* returns no wallet and never raises; the invocation that asked for the
\* key ends with the failure payload that names the missing wallet
\* configuration, has read nothing from the chain and built nothing, changes
\* no chain state, and leaves its slot as it was for the next invocation.
C30_NoWalletIsAFailureReply ==
    /\ [](\A i \in Slots :
            LET r == inv[i]
            IN  /\ r.err # "key_error"
                /\ KeyUnusable(r) /\ r.pc \notin {"idle", "start", "loadKey"}
                   /\ r.reply.kind # "disabled"
                   => /\ r.errStage = "key" /\ r.err = "no_wallet"
                      /\ r.reply.kind = "failure" /\ r.reply.err = "no_wallet"
                      /\ r.pc \in {"callback", "done"}
                      /\ ~r.fetched /\ NothingBuilt(r)
                      /\ r.toAccount = "unknown" /\ r.balance = -1
                      /\ r.amount = -1 /\ r.mint = NoMatch
                /\ r.errStage = "key" => KeyUnusable(r))
    /\ [][\A i \in Slots :
            LET r == inv[i]
            IN  KeyUnusable(r) /\ r.pc # "idle" /\ inv'[i] # r
                => /\ swig' = swig /\ plugin' = plugin
                   /\ r.pc = "done" => inv'[i] = Idle]_vars

\* SOLANA_PRIVATE_KEY is '[not json]': JSON.parse threw inside the loader,
\* the handler replied with the wallet-not-configured failure
C30_Witness ==
    LET r == inv["s1"]
    IN  /\ r.op = "SWIG_TRANSFER_TO_ADDRESS" /\ r.keySetting = "[not json]"
        /\ r.pc = "done" /\ r.reply.kind = "failure"
        /\ r.reply.err = "no_wallet" /\ ~r.fetched

\* the payload has the four fields, names its operation and REPLY as
\* actions, and carries the source of the message
WellFormed(p, r) ==
    /\ {"text", "thought", "actions", "source"} \subseteq DOMAIN p
    /\ p.text # <<>> /\ p.thought # "none"
    /\ p.actions = <<r.op, "REPLY">>
    /\ p.source = r.source

\* C31: every payload a handler delivers, on success, on failure and on
\* feature refusal, has text, thought, actions and source, with actions
\* the operation's name followed by REPLY and source the source of the
\* incoming message; with a response slot and a callback, the slot holds
\* the payload the callback was last given, and each was given as many.
C31_PayloadShape ==
    \A i \in Slots :
        LET r == inv[i]
        IN  /\ r.reply # NoPayload => WellFormed(r.reply, r)
            /\ r.slot # NoPayload => WellFormed(r.slot, r) /\ r.slot = r.reply
            /\ \A k \in 1..Len(r.cbCalls) : WellFormed(r.cbCalls[k], r)
            /\ r.hasCb /\ r.reply # NoPayload
               => /\ r.cbCalls # <<>>
                  /\ r.cbCalls[Len(r.cbCalls)] = r.reply
            /\ r.hasSlot /\ r.hasCb => r.slotWrites = Len(r.cbCalls)
            /\ r.hasSlot /\ r.reply # NoPayload => r.slot = r.reply

\* a refusal for a 'telegram' message was written to the slot and given to
\* the callback
C31_Witness ==
    LET r == inv["s1"]
    IN  /\ r.source = "telegram" /\ r.hasSlot /\ r.hasCb /\ r.pc = "done"
        /\ r.reply.kind = "disabled" /\ r.slot = r.reply
        /\ r.cbCalls = <<r.reply>> /\ r.reply.source = "telegram"

\* C32: every invocation eventually reaches the Responded state, a payload
\* delivered and the handler returned, provided every external call
\* eventually returns or fails; and no stage is revisited: the step out of
\* the delivery of the payload to the callback ends the invocation.
C32_EventuallyResponded ==
    /\ \A i \in Slots :
        (inv[i].pc = "start")
            ~> (/\ inv[i].pc = "done" /\ inv[i].result = "returned"
                /\ inv[i].reply # NoPayload)
    /\ [][\A i \in Slots :
            inv[i].pc = "callback" /\ inv'[i] # inv[i]
                => inv'[i].pc = "done"]_vars

\* no usable key, and the callback threw on the error payload: the
\* invocation ended by rejecting, not by returning
C32_Witness ==
    LET r == inv["s1"]
    IN  /\ r.pc = "done" /\ r.result = "raised" /\ r.errStage = "key"
        /\ r.keySetting = "[1,2" /\ r.cbCalls = <<r.reply>>


\* the settings the switch is documented to read as enabled
Enabling == {v \in AllSettingValues : v = Undefined \/ String(v) = "true"}

\* C35: the implementations of the transfers-enabled test agree for every
\* value of SWIG_TRANSFERS_ENABLED: the one of plugin initialization, the
\* three of the utilities and the inline check of the handlers all read the
\* switch as enabled exactly when the setting is undefined or its string
\* form is exactly 'true'; 'false', 'TRUE', '1', '' and null disable.
C35_SwitchAgree ==
    /\ {"false", "TRUE", "1", "", Null} \cap Enabling = {}
    /\ {Undefined, "true"} \subseteq Enabling
    /\ \A v \in AllSettingValues :
        /\ areTransfersEnabled(v) <=> v \in Enabling
        /\ getSwigConfig(v).transfersEnabled <=> v \in Enabling
        /\ configAreTransfersEnabled(v) <=> v \in Enabling
        /\ \A op \in SwitchOps, src \in Sources :
            validateTransfersEnabled(v, op, src) = NoPayload <=> v \in Enabling
    /\ plugin.initialized
        => ("TRANSFER_TO_SWIG" \in Registered <=> plugin.tset \in Enabling)
    /\ \A i \in Slots :
        LET r == inv[i]
        IN  r.pc \notin {"idle", "start"} /\ r.op \in TransferGated
                => (r.reply.kind = "disabled" <=> r.tset \notin Enabling)

\* a runtime whose setting is 'TRUE' initialized the plugin without the
\* transfer actions, and its TRANSFER_TO_SWIG handler refused
C35_Witness ==
    LET r == inv["s1"]
    IN  /\ plugin.initialized /\ plugin.tset = "TRUE"
        /\ "TRANSFER_TO_SWIG" \notin Registered
        /\ r.op = "TRANSFER_TO_SWIG" /\ r.tset = "TRUE" /\ r.pc = "done"
        /\ r.reply.kind = "disabled"
        /\ ~getSwigConfig(r.tset).transfersEnabled


\* what one initialization selects for a setting
Selection(v) ==
    IF v \in Enabling
    THEN <<"CREATE_SWIG", "GET_SWIG_BALANCE", "GET_SWIG_AUTHORITIES",
           "GET_SWIG_TOKEN_BALANCE", "TRANSFER_TO_SWIG", "ADD_SWIG_AUTHORITY",
           "SWIG_TRANSFER_TO_ADDRESS", "TRANSFER_TOKEN_TO_SWIG",
           "SWIG_TRANSFER_TO_AUTHORITY", "SWIG_TRANSFER_TOKEN_TO_ADDRESS",
           "SWIG_TRANSFER_TOKEN_TO_AUTHORITY">>
    ELSE <<"CREATE_SWIG", "GET_SWIG_BALANCE", "GET_SWIG_AUTHORITIES",
           "GET_SWIG_TOKEN_BALANCE">>

\* C38: the plugin's action list is one shared list. After any sequence of
\* initializations, by runtimes of different SWIG_TRANSFERS_ENABLED, the
\* list is the selection of the most recent initialization alone, whatever
\* the earlier ones listed; and no step of a handler invocation changes it.
C38_SharedList ==
    /\ [](plugin.initialized => plugin.actions = Selection(plugin.tset))
    /\ [](~plugin.initialized => plugin.actions = <<>>)
    /\ [][\A i \in Slots : inv'[i] # inv[i] => plugin' = plugin]_vars

\* a runtime with transfers enabled initialized the plugin, then one with
\* transfers disabled did, and a handler has run since: the list is the
\* read-only selection
C38_Witness ==
    /\ plugin.initialized /\ plugin.prev = Selection("true") /\ plugin.tset = "false"
    /\ plugin.actions = Selection("false")
    /\ Len(plugin.actions) = 4
    /\ inv["s1"].pc = "done" /\ inv["s1"].op = "TRANSFER_TO_SWIG"


\* an amount that has no more digits after the point than the mint has
Representable(t, decimals) == Decimal(t).k <= decimals

\* C33: token amounts round-trip. An amount a of a token transfer is scaled
\* to a * 10^decimals base units, and the balance query divides the base
\* units by 10^decimals: into an empty destination account, for every a
\* representable with the mint's decimals, the transfer goes through, the
\* account holds exactly a * 10^decimals units and the queried balance is a.
C33_AmountRoundTrip ==
    \A i \in Slots :
        LET r == inv[i]
            a == Decimal(r.amountText)
        IN  /\ r.pc = "done" /\ r.amountText # "none"
            /\ Representable(r.amountText, r.decimals)
            => /\ r.err = "none"
               /\ r.units = a.n * Pow10(r.decimals - a.k)
               /\ r.queried = parseFloat64(r.amountText)

\* 1.1 tokens of a mint with 2 decimals: 1.1 * 100 is not an integer, the
\* instruction builder threw and nothing was transferred
C33_Witness ==
    LET r == inv["s1"]
    IN  /\ r.pc = "done" /\ r.amountText = "1.1" /\ r.decimals = 2
        /\ ~IsInteger(r.adjusted) /\ r.err = "amount_error"
        /\ r.reply.kind = "failure" /\ ~r.landed


\* README: "Send 50 spl tokens <mint> from swig to role 1"
SplTokensForm ==
    <<"send", "1", "spl", "tokens", "MintA", "from", "swig", "to", "role", "1">>

\* C34: SWIG_TRANSFER_TOKEN_TO_AUTHORITY carries out the documented form in
\* which the mint follows the words 'spl tokens' without the keyword 'mint'
\* and the destination is 'role <id>': the mint is resolved from the text,
\* the invocation never fails with the missing-mint error, and once the
\* wallet is fetched and the caller holds a role it goes on to resolve the
\* role, so that it either fails with role-not-found or carries the mint
\* and the authority of that role.
C34_SplTokensFormResolved ==
    \A i \in Slots :
        LET r == inv[i]
        IN  r.op = "SWIG_TRANSFER_TOKEN_TO_AUTHORITY" /\ r.text = SplTokensForm
            => /\ r.err # "no_mint"
               /\ r.fetched /\ r.agentRole # NoRole /\ r.err # "role_not_found"
                  => /\ r.mint = "MintA"
                     /\ r.recipient = findRoleById(r.roles, 1).authority

\* the documented message on a wallet whose role 1 exists, the caller
\* holding a role: the invocation ended with the missing-mint failure
C34_Witness ==
    LET r == inv["s1"]
    IN  /\ r.op = "SWIG_TRANSFER_TOKEN_TO_AUTHORITY" /\ r.text = SplTokensForm
        /\ r.pc = "done" /\ r.fetched /\ r.agentRole # NoRole
        /\ findRoleById(r.roles, 1) # NoRole
        /\ r.err = "no_mint" /\ r.reply.kind = "failure" /\ r.sends = 0


\* the positions of the address-shaped tokens of a text
AddressAt(text) == {j \in 1..Len(text) : IsAddress(text[j])}

\* the position of the first address that directly follows the word, or 0
FollowsWord(text, word) ==
    FirstIdx({j \in AddressAt(text) : At(text, j - 1) = word})

\* C36: SWIG_TRANSFER_TOKEN_TO_ADDRESS requires at least two address-shaped
\* tokens in the text. It takes the mint from the token after 'mint' and
\* the recipient from the token after 'to' only when both keyword matches
\* exist; otherwise the first address from the left is the mint and the
\* second the recipient. It never uses one positional token for both.
C36_MintThenRecipient ==
    \A i \in Slots :
        LET r == inv[i]
            text == r.text
            all == AddressAt(text)
            first == FirstIdx(all)
            second == FirstIdx(all \ {first})
            mp == FollowsWord(text, "mint")
            tp == FollowsWord(text, "to")
        IN  /\ r.op = "SWIG_TRANSFER_TOKEN_TO_ADDRESS"
            /\ r.pc \notin {"idle", "start", "loadKey"}
            /\ r.err # "no_amount"
            => IF Cardinality(all) < 2
               THEN r.err = "need_two_addresses" /\ ~r.fetched
               ELSE /\ r.errStage # "parse"
                    /\ IF mp # 0 /\ tp # 0
                       THEN /\ r.mint = text[mp] /\ r.recipient = text[tp]
                            /\ mp # tp
                       ELSE /\ r.mint = text[first]
                            /\ r.recipient = text[second]
                            /\ first # second

\* only the keyword 'to' matches: the first address, the one after 'to', is
\* taken as the mint and the second as the recipient
C36_Witness ==
    LET r == inv["s1"]
    IN  /\ r.op = "SWIG_TRANSFER_TOKEN_TO_ADDRESS"
        /\ r.text = <<"1", "to", "K3", "MintA">>
        /\ r.pc = "fetch" /\ r.mint = "K3" /\ r.recipient = "MintA"


\* the failures of the target resolution that come from an address
AddressErrors == {"authority_not_found", "address_not_authority", "no_target"}

\* C37: when a message has both a 'role <id>' phrase and an address, the
\* transfers to an authority and the removal of an authority resolve the
\* target by the role id only. The address is ignored: if the id is not in
\* the role list the operation fails with role-not-found, even when the
\* address is an authority of the wallet, and if the id is in the list the
\* target is that role, whatever the address.
C37_RoleIdOnly ==
    \A i \in Slots :
        LET r == inv[i]
            id == NumVal(roleIdMatch(r.text))
            byId == {r.roles[j] : j \in {k \in 1..Len(r.roles) : r.roles[k].id = id}}
        IN  /\ r.op \in TargetOps /\ r.fetched
            /\ roleIdMatch(r.text) # NoMatch /\ publicKeyMatch(r.text) # NoMatch
            /\ r.err # "not_authority"
            => /\ r.err \notin AddressErrors
               /\ byId = {} <=> r.err = "role_not_found"
               /\ byId # {} /\ r.errStage # "resolve"
                  => IF r.op = "REMOVE_SWIG_AUTHORITY" THEN r.target \in byId
                     ELSE \E role \in byId : r.recipient = role.authority

\* 'transfer 1 from swig to role 2 K2' on a wallet of K1 and K2, roles 0
\* and 1: K2 is an authority, role 2 does not exist, the transfer failed
C37_Witness ==
    LET r == inv["s1"]
    IN  /\ r.op = "SWIG_TRANSFER_TO_AUTHORITY"
        /\ r.text = <<"transfer", "1", "from", "swig", "to", "role", "2", "K2">>
        /\ findRoleByAuthority(r.roles, "K2") # NoRole
        /\ r.pc = "done" /\ r.err = "role_not_found" /\ r.sends = 0


\* the token transfers that look up the destination's token account
LookupTransfers ==
    {"TRANSFER_TOKEN_TO_SWIG", "SWIG_TRANSFER_TOKEN_TO_ADDRESS",
     "SWIG_TRANSFER_TOKEN_TO_AUTHORITY"}

\* C39: any failure of the token-account lookup, the account absent or the
\* chain read failing, is treated as 'account absent'. The lookup never
\* fails the invocation; the token balance query then reports balance 0 in
\* a success payload, and a token transfer then puts an account-creation
\* instruction for the destination before its transfer instruction.
C39_LookupFailureIsAbsence ==
    \A i \in Slots :
        LET r == inv[i]
        IN  r.lookup \in {"absent", "read_error"}
            => /\ r.errStage \notin {"getAccount", "getBalance"}
               /\ r.toAccount = "absent"
               /\ r.op \in {"GET_SWIG_TOKEN_BALANCE", "GET_SWIG_BALANCE"}
                  => /\ r.balance = 0
                     /\ r.errStage \in {"none", "callback"}
                     /\ r.errStage = "none"
                        => r.reply.kind = "success" /\ r.reply.balance = 0
                     /\ r.hasCb => /\ r.cbCalls[1].kind = "success"
                                   /\ r.cbCalls[1].balance = 0
               /\ r.op \in LookupTransfers
                  => /\ IxsOf(r, "tokenTransfer") # {}
                     /\ IxsOf(r, "createAta") # {}
                     /\ \A c \in IxsOf(r, "createAta"),
                           t \in IxsOf(r, "tokenTransfer") :
                           c < t /\ r.ixs[c].to = r.ixs[t].to

\* the read of the authority's token account failed: the transfer was sent
\* with the account creation first
C39_Witness ==
    LET r == inv["s1"]
    IN  /\ r.op = "SWIG_TRANSFER_TOKEN_TO_AUTHORITY" /\ r.lookup = "read_error"
        /\ r.pc = "done" /\ r.sends = 1 /\ r.reply.kind = "success"
        /\ Len(r.ixs) = 2 /\ r.ixs[1].kind = "createAta"
        /\ r.ixs[2].kind = "tokenTransfer"


====
